---- MODULE Spec2Model ----
(***************************************************************************)
(* The GO executor of the graph layer (src/src/graph/GoExecutor.cpp): one  *)
(* query, from execute() to doFinish/doError, with the storage round trips *)
(* as asynchronous continuations.                                          *)
(***************************************************************************)
EXTENDS Integers, Sequences, FiniteSets, TLC

\* ------------------------------------------------------------------ bounds
MaxSteps == 2
MaxCurStep == 3
MaxEdges == 2
NumParts == 2
HashBits == 12

\* ------------------------------------------------------------------ helpers
RECURSIVE SortedSeq(_)
SortedSeq(S) ==
    IF S = {} THEN <<>>
    ELSE LET m == CHOOSE x \in S : \A y \in S : x <= y
         IN <<m>> \o SortedSeq(S \ {m})

RECURSIVE AnySeq(_)
AnySeq(S) ==
    IF S = {} THEN <<>>
    ELSE LET m == CHOOSE x \in S : TRUE
         IN <<m>> \o AnySeq(S \ {m})

RECURSIVE Flatten(_)
Flatten(ss) == IF ss = <<>> THEN <<>> ELSE Head(ss) \o Flatten(Tail(ss))

Range(s) == {s[i] : i \in 1..Len(s)}

Abs(x) == IF x < 0 THEN -x ELSE x

EmptyMap == [x \in {} |-> 0]

MapPut(m, k, v) == [x \in (DOMAIN m) \cup {k} |-> IF x = k THEN v ELSE m[x]]

\* ------------------------------------------------------------------ values
\* VariantType: boost::variant<int64_t, double, bool, std::string>
VInt(n) == [which |-> "VAR_INT64", i |-> n, s |-> ""]
VStr(t) == [which |-> "VAR_STR", i |-> 0, s |-> t]
VBool(b) == [which |-> "VAR_BOOL", i |-> IF b THEN 1 ELSE 0, s |-> ""]

Ok(v) == [ok |-> TRUE, val |-> v]
Err == [ok |-> FALSE, val |-> VInt(0)]

\* ------------------------------------------------------------------ schema
\* The space of the session: two edge types and one tag.
EdgeNames == <<"like", "follow">>
ToEdgeType(name) == CASE name = "like" -> 1 [] name = "follow" -> 2
ToEdgeName(type) == EdgeNames[type]
ToTagID(name) == CASE name = "person" -> 1

\* field -> SupportedType of every edge type and of the tag
EdgeSchema(type) == [rating |-> "INT"]
TagSchema(tid) == [name |-> "STRING"]

\* RowReader::getDefaultProp: the default of the field's type
DefaultOfType(t) ==
    CASE t = "INT" -> VInt(0)
      [] t = "VID" -> VInt(0)
      [] t = "STRING" -> VStr("")
      [] t = "BOOL" -> VBool(FALSE)
      [] OTHER -> VInt(0)

GetDefaultProp(schema, prop) ==
    IF prop \in DOMAIN schema THEN Ok(DefaultOfType(schema[prop])) ELSE Err

\* RowReader::getPropByName on a decoded row (field -> value)
GetPropByName(row, prop) ==
    IF prop \in DOMAIN row THEN Ok(row[prop]) ELSE Err

\* ------------------------------------------------------------------ storage
Edge(s, d, t, r, p) == [src |-> s, dst |-> d, type |-> t, rank |-> r, rating |-> p]

EdgeUniverse ==
    { Edge(1, 2, 1, 0, 5), Edge(1, 3, 1, 0, 3), Edge(4, 5, 1, 0, 1),
      Edge(2, 3, 1, 0, 4), Edge(2, 1, 1, 0, 2), Edge(7, 9, 1, 0, 1),
      Edge(8, 9, 1, 0, 1), Edge(1, 2, 2, 0, 7), Edge(1, 2, 1, 1, 6) }

Vertices == {e.src : e \in EdgeUniverse} \cup {e.dst : e \in EdgeUniverse}

\* the stored graphs of the plain traversals: at most MaxEdges of the edges
\* that leave vertex 1 or vertex 2
Graphs ==
    {g \in SUBSET {e \in EdgeUniverse : e.src \in {1, 2}} : Cardinality(g) <= MaxEdges}

\* person.name of the vertices that carry the tag
PersonName ==
    [v \in {1, 2, 3, 7, 8} |->
        CASE v = 1 -> "a" [] v = 2 -> "b" [] v = 3 -> "c" [] OTHER -> "z"]

PartOf(v) == (v % NumParts) + 1
PartsOf(vids) == {PartOf(v) : v \in vids}

\* StorageRpcResponse::completeness: the share of the parts that answered
Completeness(parts, failed) ==
    IF parts = {} THEN 100
    ELSE ((Cardinality(parts) - Cardinality(failed)) * 100) \div Cardinality(parts)

\* ------------------------------------------------------------------ requests
\* storage::cpp2::PropDef
PropDef(owner, name, id) == [owner |-> owner, name |-> name, id |-> id]

NoRequest ==
    [kind |-> "none", vids |-> <<>>, edgeTypes |-> <<>>, filter |-> "",
     props |-> <<>>, step |-> 0, keys |-> <<>>, etype |-> 0]

\* the names of the EDGE props a request asks of edge type t
EdgePropNames(props, t) ==
    {props[i].name : i \in {j \in 1..Len(props) :
                              props[j].owner = "EDGE" /\ props[j].id = t}}

TagPropNames(props, owner, tid) ==
    {props[i].name : i \in {j \in 1..Len(props) :
                              props[j].owner = owner /\ props[j].id = tid}}

\* The edges storage holds for vertex v under the (signed) edge type t: the
\* out-edges for t > 0, the in-edges seen from their destination for t < 0.
NeighborEdges(g, v, t) ==
    IF t > 0 THEN {e \in g : e.src = v /\ e.type = t}
    ELSE {e \in g : e.dst = v /\ e.type = -t}

EdgeField(e, t, p) ==
    CASE p = "_dst" -> VInt(IF t > 0 THEN e.dst ELSE e.src)
      [] p = "_src" -> VInt(IF t > 0 THEN e.src ELSE e.dst)
      [] p = "_rank" -> VInt(e.rank)
      [] p = "_type" -> VInt(t)
      [] p = "rating" -> VInt(e.rating)

EdgeRow(e, t, names) == [p \in names |-> EdgeField(e, t, p)]

FieldType(p) ==
    CASE p \in {"_dst", "_src"} -> "VID"
      [] p \in {"_rank", "_type", "rating"} -> "INT"
      [] OTHER -> "UNKNOWN"

\* the edge_schema sidecar of a response: requested fields per edge type
EdgeSchemaOf(edgeTypes, props) ==
    [t \in Range(edgeTypes) |-> [p \in EdgePropNames(props, t) |-> FieldType(p)]]

\* storage::cpp2::EdgeData of vertex v for type t
EData(g, v, t, props) ==
    LET es == AnySeq(NeighborEdges(g, v, t))
    IN [type |-> t,
        edges |-> [i \in 1..Len(es) |->
                     [dst |-> IF t > 0 THEN es[i].dst ELSE es[i].src,
                      props |-> EdgeRow(es[i], t, EdgePropNames(props, t))]]]

TagData(v, owner, props) ==
    IF v \in DOMAIN PersonName /\ TagPropNames(props, owner, 1) # {}
    THEN <<[tag_id |-> 1, data |-> [name |-> VStr(PersonName[v])]]>>
    ELSE <<>>

\* storage::cpp2::VertexData of a getNeighbors response
VData(g, v, edgeTypes, props) ==
    LET present == SelectSeq(edgeTypes, LAMBDA t : NeighborEdges(g, v, t) # {})
    IN [vertex_id |-> v,
        tag_data |-> TagData(v, "SOURCE", props),
        edge_data |-> [i \in 1..Len(present) |-> EData(g, v, present[i], props)]]

\* StorageClient::getNeighbors: one QueryResponse per part that answered
GetNeighborsResp(g, req, failed) ==
    LET parts == SortedSeq(PartsOf(Range(req.vids)) \ failed)
        mine(p) == SelectSeq(req.vids, LAMBDA v : PartOf(v) = p)
    IN [i \in 1..Len(parts) |->
          [part |-> parts[i],
           edge_schema |-> EdgeSchemaOf(req.edgeTypes, req.props),
           vertices |-> [k \in 1..Len(mine(parts[i])) |->
                           VData(g, mine(parts[i])[k], req.edgeTypes, req.props)]]]

\* StorageClient::getVertexProps: the tag data of the requested vertices
GetVertexPropsResp(req, failed) ==
    LET parts == SortedSeq(PartsOf(Range(req.vids)) \ failed)
        mine(p) == SelectSeq(req.vids, LAMBDA v : PartOf(v) = p)
    IN [i \in 1..Len(parts) |->
          [part |-> parts[i],
           edge_schema |-> EmptyMap,
           vertices |-> [k \in 1..Len(mine(parts[i])) |->
                           [vertex_id |-> mine(parts[i])[k],
                            tag_data |-> TagData(mine(parts[i])[k], "DEST", req.props),
                            edge_data |-> <<>>]]]]

\* StorageClient::getEdgeProps: one EdgePropResponse per part that answered,
\* holding the rows of the stored edges among the keys, with the reserved
\* columns and the requested properties
KeyParts(keys) == {PartOf(keys[i].src) : i \in 1..Len(keys)}

GetEdgePropsRows(g, req, part) ==
    LET found == SelectSeq(req.keys, LAMBDA k :
                    /\ PartOf(k.src) = part
                    /\ \E e \in g : /\ e.src = k.src /\ e.dst = k.dst
                                    /\ e.type = k.edge_type /\ e.rank = k.ranking)
        stored(k) == CHOOSE e \in g : /\ e.src = k.src /\ e.dst = k.dst
                                      /\ e.type = k.edge_type /\ e.rank = k.ranking
        names == {"_src", "_dst", "_type", "_rank"} \cup EdgePropNames(req.props, req.etype)
    IN [i \in 1..Len(found) |-> EdgeRow(stored(found[i]), req.etype, names)]

GetEdgePropsResp(g, req, failed) ==
    LET parts == SortedSeq(KeyParts(req.keys) \ failed)
    IN [i \in 1..Len(parts) |->
          [part |-> parts[i], rows |-> GetEdgePropsRows(g, req, parts[i])]]

\* ------------------------------------------------------------------ sentence
\* Expressions of the WHERE and YIELD clauses.  A relational expression
\* compares one property expression (lkind, alias, prop) with the literal arg.
Leaf(kind, alias, prop) ==
    [kind |-> kind, alias |-> alias, prop |-> prop, arg |-> 0, lkind |-> ""]
Greater(e, n) ==
    [kind |-> "kRelational", alias |-> e.alias, prop |-> e.prop, arg |-> n,
     lkind |-> e.kind]
NoExpr == Leaf("none", "", "")
Operand(e) == IF e.kind = "kRelational" THEN Leaf(e.lkind, e.alias, e.prop) ELSE e

EdgeDstId(edge) == Leaf("kEdgeDstId", edge, "_dst")
AliasProp(edge, prop) == Leaf("kAliasProp", edge, prop)
SourceProp(tag, prop) == Leaf("kSourceProp", tag, prop)
DestProp(tag, prop) == Leaf("kDestProp", tag, prop)
InputProp(prop) == Leaf("kInputProp", "", prop)
\* PrimaryExpression: a literal, a bool (which = "VAR_BOOL", n = 1 for true)
\* or an integer
Primary(which, n) ==
    [kind |-> "kPrimary", alias |-> which, prop |-> "", arg |-> n, lkind |-> ""]

\* YieldColumn: expression, alias, aggregate function name
Column(e) == [expr |-> e, alias |-> "", fun |-> ""]

YieldLists ==
    { <<Column(EdgeDstId("like"))>>,
      <<Column(AliasProp("like", "rating"))>>,
      <<Column(SourceProp("person", "name"))>>,
      <<Column(DestProp("person", "name"))>>,
      <<Column(InputProp("id"))>>,
      <<Column(EdgeDstId("like")), Column(AliasProp("like", "rating"))>>,
      <<Column(AliasProp("like", "rating")), Column(DestProp("person", "name"))>> }

WhereChoices == {NoExpr, Greater(AliasProp("like", "rating"), 3)}

OverChoices == {<<"like">>, <<"like", "follow">>, <<"*">>}

\* FROM: literal vertex ids, or the column `id' of the piped input
InstantFrom(vids) == [ref |-> "instant", vids |-> vids, col |-> ""]
PipeFrom(col) == [ref |-> "pipe", vids |-> <<>>, col |-> col]

FromChoices ==
    {InstantFrom(<<1>>), InstantFrom(<<2>>), InstantFrom(<<1, 4>>), PipeFrom("id")}

\* the rows of the interim result fed by the previous executor (column id)
InputChoices == {<<>>, <<7, 8>>, <<1, 2>>}

\* ExpressionContext, as the expressions' prepare() fill it
ExprsOf(where, yields) ==
    (IF where.kind = "none" THEN <<>> ELSE <<Operand(where)>>)
        \o [i \in 1..Len(yields) |-> Operand(yields[i].expr)]

PropsOfKind(exprs, kinds) ==
    {<<exprs[i].alias, exprs[i].prop>> :
        i \in {j \in 1..Len(exprs) : exprs[j].kind \in kinds}}

NewContext ==
    [edgeMap |-> [n \in {} |-> 0], overAll |-> FALSE, aliasProps |-> {},
     srcTagProps |-> {}, dstTagProps |-> {}, hasInputProp |-> FALSE,
     hasVariableProp |-> FALSE]

GetEdgeType(ctx, name) ==
    IF name \in DOMAIN ctx.edgeMap THEN [found |-> TRUE, type |-> ctx.edgeMap[name]]
    ELSE [found |-> FALSE, type |-> 0]

\* ------------------------------------------------------------------ state
VARIABLES
    sentence_,              \* the parsed GO sentence
    graph,                  \* the edges storage holds
    FLAGS_filter_pushdown,  \* gflag filter_pushdown
    onResult_,              \* TRUE when a downstream executor set the hook
    inputs_,                \* vertex ids of the fed interim result (column id)
    space_,                 \* the session's graph space, -1 when none is chosen
    go,                     \* the fields of the GoExecutor object
    pc,                     \* the continuation the runner holds for the query
    outstanding,            \* storage requests in flight
    collected,              \* completed getEdgeProps futures, by edge type
    captured,               \* what the pending continuation captured
    events,                 \* calls made so far, in order
    outputs,                \* interim results handed to the onResult_ hook
    codec                   \* a row on its way through NebulaCodecImpl

vars == <<sentence_, graph, FLAGS_filter_pushdown, onResult_, inputs_, space_, go, pc,
          outstanding, collected, captured, events, outputs, codec>>

\* The transient state the handlers thread through one run on the runner:
\* the executor's fields (x.go) and the effects on its surroundings.
Frame == [go |-> go, pc |-> pc, outstanding |-> outstanding,
          captured |-> captured, events |-> events, outputs |-> outputs]

Event(name, arg) == [ev |-> name, arg |-> arg]
Emit(x, name, arg) == [x EXCEPT !.events = Append(@, Event(name, arg))]

NoTracker == [present |-> FALSE, mapping |-> EmptyMap]
NoHolder == [present |-> FALSE, data |-> EmptyMap, schemas |-> EmptyMap]
NoResp == [present |-> FALSE, column_names |-> <<>>, rows |-> <<>>]
NoCapture == [stepResp |-> <<>>, dstids |-> <<>>]

\* GoExecutor after construction (the member initialisers of GoExecutor.h)
NewExecutor ==
    [steps_ |-> 1, curStep_ |-> 1, starts_ |-> <<>>, edgeTypes_ |-> <<>>,
     isReversely_ |-> FALSE, distinct_ |-> FALSE, fromType_ |-> "kInstantExpr",
     colname_ |-> "", backTracker_ |-> NoTracker, vertexHolder_ |-> NoHolder,
     edgeHolder_ |-> NoHolder, yields_ |-> <<>>, index_ |-> [present |-> FALSE, ids |-> <<>>],
     expCtx_ |-> NewContext, filter_ |-> NoExpr, filterPushdown_ |-> "",
     resp_ |-> NoResp]

\* Executor::doError / Executor::doFinish: the query's final callbacks
DoError(x) == [Emit(x, "doError", 0) EXCEPT !.pc = "idle"]
DoFinish(x) == [Emit(x, "doFinish", 0) EXCEPT !.pc = "idle"]

IsFinalStep(g) == g.curStep_ = g.steps_

\* ------------------------------------------------------------------ prepare
Status(ok, g) == [ok |-> ok, go |-> g]

\* Executor::checkIfGraphSpaceChosen
CheckIfGraphSpaceChosen(g) == Status(space_ # -1, g)

PrepareStep(g) ==
    LET g1 == [g EXCEPT !.steps_ = sentence_.steps]
    IN IF sentence_.upto THEN Status(FALSE, g1)
       ELSE IF g1.steps_ # 1
            THEN Status(TRUE, [g1 EXCEPT !.backTracker_ =
                                   [present |-> TRUE, mapping |-> EmptyMap]])
            ELSE Status(TRUE, g1)

PrepareFrom(g) ==
    LET from == sentence_.from
    IN IF from.ref = "pipe"
       THEN LET g1 == [g EXCEPT !.fromType_ = "kPipe", !.colname_ = from.col]
            IN Status(from.col # "*", g1)
       ELSE Status(TRUE, [g EXCEPT !.starts_ = @ \o from.vids,
                                   !.fromType_ = "kInstantExpr"])

\* ExpressionContext::addEdge: FALSE when the alias is already registered
AddEdge(g, name, v) ==
    IF name \in DOMAIN g.expCtx_.edgeMap THEN Status(FALSE, g)
    ELSE Status(TRUE, [g EXCEPT !.expCtx_.edgeMap = MapPut(@, name, v)])

RECURSIVE PrepareOverAllFrom(_, _)
PrepareOverAllFrom(g, i) ==
    IF i > Len(EdgeNames) THEN Status(TRUE, g)
    ELSE LET t == ToEdgeType(EdgeNames[i])
             v == IF g.isReversely_ THEN -t ELSE t
             g1 == [g EXCEPT !.edgeTypes_ = Append(@, v)]
             added == AddEdge(g1, EdgeNames[i], v)
         IN IF ~added.ok THEN added ELSE PrepareOverAllFrom(added.go, i + 1)

PrepareOverAll(g) == PrepareOverAllFrom(g, 1)

RECURSIVE PrepareOverFrom(_, _)
PrepareOverFrom(g, i) ==
    IF i > Len(sentence_.over) THEN Status(TRUE, g)
    ELSE LET e == sentence_.over[i]
         IN IF e = "*"
            THEN PrepareOverAll([g EXCEPT !.expCtx_.overAll = TRUE])
            ELSE LET t == ToEdgeType(e)
                     v == IF g.isReversely_ THEN -t ELSE t
                     g1 == [g EXCEPT !.edgeTypes_ = Append(@, v)]
                     added == AddEdge(g1, e, v)
                 IN IF ~added.ok THEN added ELSE PrepareOverFrom(added.go, i + 1)

PrepareOver(g) ==
    LET g1 == [g EXCEPT !.isReversely_ = sentence_.reversely]
        g2 == IF g1.isReversely_
              THEN [g1 EXCEPT !.edgeHolder_ = [NoHolder EXCEPT !.present = TRUE]]
              ELSE g1
    IN PrepareOverFrom(g2, 1)

\* what the prepare() of a list of expressions registers in the context
Register(ctx, exprs) ==
    [ctx EXCEPT
       !.aliasProps = @ \cup PropsOfKind(exprs, {"kAliasProp", "kEdgeDstId"}),
       !.srcTagProps = @ \cup PropsOfKind(exprs, {"kSourceProp"}),
       !.dstTagProps = @ \cup PropsOfKind(exprs, {"kDestProp"}),
       !.hasInputProp = @ \/ PropsOfKind(exprs, {"kInputProp"}) # {},
       !.hasVariableProp = @ \/ PropsOfKind(exprs, {"kVariableProp"}) # {}]

\* WhereWrapper::prepare: keeps the filter and its serialized form
PrepareWhere(g) ==
    LET w == sentence_.where
    IN Status(TRUE,
         [g EXCEPT !.filter_ = w,
                   !.filterPushdown_ = IF w.kind = "none" THEN "" ELSE "filter",
                   !.expCtx_ = Register(@, ExprsOf(w, <<>>))])

PrepareYield(g) ==
    IF sentence_.hasYield
    THEN LET g1 == [g EXCEPT !.yields_ = sentence_.yields]
         IN Status(\A i \in 1..Len(g1.yields_) : g1.yields_[i].fun = "", g1)
    ELSE Status(TRUE, g)

PrepareNeededProps(g) ==
    LET g1 == [g EXCEPT !.expCtx_ = Register(@, ExprsOf(NoExpr, g.yields_))]
        ctx == g1.expCtx_
    IN IF ctx.hasVariableProp /\ g1.fromType_ # "kVariable" THEN Status(FALSE, g1)
       ELSE IF ctx.hasInputProp /\ g1.fromType_ # "kPipe" THEN Status(FALSE, g1)
       ELSE Status(\A tp \in ctx.srcTagProps \cup ctx.dstTagProps : tp[1] = "person", g1)

PrepareDistinct(g) ==
    IF sentence_.hasYield
    THEN Status(TRUE, [g EXCEPT !.distinct_ = sentence_.distinct])
    ELSE Status(TRUE, g)

\* the steps of prepareClauses, in the order it takes them
PrepareNth(n, g) ==
    CASE n = 0 -> CheckIfGraphSpaceChosen(g)
      [] n = 1 -> PrepareStep(g)
      [] n = 2 -> PrepareFrom(g)
      [] n = 3 -> PrepareOver(g)
      [] n = 4 -> PrepareWhere(g)
      [] n = 5 -> PrepareYield(g)
      [] n = 6 -> PrepareNeededProps(g)
      [] n = 7 -> PrepareDistinct(g)

\* a step runs only when the status so far is ok
AndThen_Always(n, status) ==
    LET next == PrepareNth(n, status.go)
    IN Status(status.ok /\ next.ok, next.go)

AndThen(n, status) == IF status.ok THEN PrepareNth(n, status.go) ELSE status

RECURSIVE PrepareUpTo(_, _)
PrepareUpTo(n, g) ==
    IF n = 0 THEN PrepareNth(0, g) ELSE AndThen(n, PrepareUpTo(n - 1, g))

PrepareClauses(g) == PrepareUpTo(7, g)

SetupStarts(g) ==
    IF g.starts_ # <<>> THEN Status(TRUE, g)
    ELSE IF inputs_ = <<>> THEN Status(TRUE, g)
    ELSE Status(TRUE, [g EXCEPT !.starts_ = inputs_,
                                !.index_ = [present |-> TRUE, ids |-> inputs_]])

\* ------------------------------------------------------------------ hop loop
\* The edge records of a response in the order the executor's loops visit
\* them: responses, vertices, edge_data, edges.
EdgesOfEData(r, vd, ed) ==
    [i \in 1..Len(ed.edges) |->
        [src |-> vd.vertex_id, tag_data |-> vd.tag_data, type |-> ed.type,
         dst |-> ed.edges[i].dst, props |-> ed.edges[i].props,
         edge_schema |-> r.edge_schema]]

EdgesOfVData(r, vd) ==
    Flatten([i \in 1..Len(vd.edge_data) |-> EdgesOfEData(r, vd, vd.edge_data[i])])

EdgesOfResp(r) ==
    Flatten([i \in 1..Len(r.vertices) |-> EdgesOfVData(r, r.vertices[i])])

Records(rpcResp) == Flatten([i \in 1..Len(rpcResp) |-> EdgesOfResp(rpcResp[i])])

\* what a response holds: its vertices and the destinations of its edges
Digest(rpcResp) ==
    LET vs == Flatten([i \in 1..Len(rpcResp) |-> rpcResp[i].vertices])
        recs == Records(rpcResp)
    IN [vertices |-> {vs[i].vertex_id : i \in 1..Len(vs)},
        dsts |-> {recs[i].dst : i \in 1..Len(recs)}]

\* what the projection is given: the digest of the response and, in their
\* order, the ends and type of its edge records
WithEdges(digest, recs) ==
    [vertices |-> digest.vertices, dsts |-> digest.dsts,
     edges |-> [i \in 1..Len(recs) |->
                  [src |-> recs[i].src, dst |-> recs[i].dst, type |-> recs[i].type]]]

\* VertexBackTracker::add: dst is mapped to the root of src
BackTrackerAdd(bt, src, dst) ==
    LET root == IF src \in DOMAIN bt.mapping THEN bt.mapping[src] ELSE src
    IN [bt EXCEPT !.mapping = MapPut(@, dst, root)]

\* VertexBackTracker::get
BackTrackerGet(bt, id) ==
    IF id \in DOMAIN bt.mapping THEN bt.mapping[id] ELSE id

RECURSIVE TrackAll(_, _)
TrackAll(bt, recs) ==
    IF recs = <<>> THEN bt
    ELSE TrackAll(BackTrackerAdd(bt, Head(recs).src, Head(recs).dst), Tail(recs))

\* mutant: collects the source of every edge instead of its destination
GetDstIdsFromResp_Sources(g, rpcResp) ==
    LET recs == Records(rpcResp)
    IN [ids |-> SortedSeq({recs[i].src : i \in 1..Len(recs)}),
        go |-> IF ~IsFinalStep(g) /\ g.backTracker_.present
               THEN [g EXCEPT !.backTracker_ = TrackAll(@, recs)]
               ELSE g]

\* mutant: the destinations are kept as they come, repeated or not
GetDstIdsFromResp_Repeats(g, rpcResp) ==
    LET recs == Records(rpcResp)
    IN [ids |-> [i \in 1..Len(recs) |-> recs[i].dst],
        go |-> IF ~IsFinalStep(g) /\ g.backTracker_.present
               THEN [g EXCEPT !.backTracker_ = TrackAll(@, recs)]
               ELSE g]

\* mutant: the back-tracker is fed on the final hop too
GetDstIdsFromResp_TrackFinal(g, rpcResp) ==
    LET recs == Records(rpcResp)
    IN [ids |-> SortedSeq({recs[i].dst : i \in 1..Len(recs)}),
        go |-> IF g.backTracker_.present
               THEN [g EXCEPT !.backTracker_ = TrackAll(@, recs)]
               ELSE g]

\* GoExecutor::getDstIdsFromResp: the distinct destinations, and the
\* back-tracker as the loop leaves it
GetDstIdsFromResp(g, rpcResp) ==
    LET recs == Records(rpcResp)
    IN [ids |-> SortedSeq({recs[i].dst : i \in 1..Len(recs)}),
        go |-> IF ~IsFinalStep(g) /\ g.backTracker_.present
               THEN [g EXCEPT !.backTracker_ = TrackAll(@, recs)]
               ELSE g]

RECURSIVE PropsPerType(_, _)
PropsPerType(types, names) ==
    IF types = <<>> THEN <<>>
    ELSE [i \in 1..Len(names) |-> PropDef("EDGE", names[i], Head(types))]
            \o PropsPerType(Tail(types), names)

\* mutant: the alias props are asked for in a reverse traversal too
GetStepOutProps_AliasAlways(g) ==
    IF ~IsFinalStep(g)
    THEN [ok |-> TRUE, props |-> PropsPerType(g.edgeTypes_, <<"_dst">>)]
    ELSE LET edgeProps == PropsPerType(g.edgeTypes_,
                              IF g.isReversely_ THEN <<"_dst", "_rank">> ELSE <<"_dst">>)
             src == AnySeq(g.expCtx_.srcTagProps)
             srcProps == [i \in 1..Len(src) |->
                             PropDef("SOURCE", src[i][2], ToTagID(src[i][1]))]
             alias == AnySeq({ap \in g.expCtx_.aliasProps : ap[2] # "_dst"})
             aliasProps == [i \in 1..Len(alias) |->
                             PropDef("EDGE", alias[i][2],
                                     GetEdgeType(g.expCtx_, alias[i][1]).type)]
             known == \A ap \in g.expCtx_.aliasProps :
                         ap[2] # "_dst" => GetEdgeType(g.expCtx_, ap[1]).found
         IN [ok |-> known, props |-> edgeProps \o srcProps \o aliasProps]

\* GoExecutor::getStepOutProps
GetStepOutProps(g) ==
    IF ~IsFinalStep(g)
    THEN [ok |-> TRUE, props |-> PropsPerType(g.edgeTypes_, <<"_dst">>)]
    ELSE LET edgeProps == PropsPerType(g.edgeTypes_,
                              IF g.isReversely_ THEN <<"_dst", "_rank">> ELSE <<"_dst">>)
             src == AnySeq(g.expCtx_.srcTagProps)
             srcProps == [i \in 1..Len(src) |->
                             PropDef("SOURCE", src[i][2], ToTagID(src[i][1]))]
             alias == AnySeq({ap \in g.expCtx_.aliasProps : ap[2] # "_dst"})
             aliasProps == [i \in 1..Len(alias) |->
                             PropDef("EDGE", alias[i][2],
                                     GetEdgeType(g.expCtx_, alias[i][1]).type)]
             known == \A ap \in g.expCtx_.aliasProps :
                         ap[2] # "_dst" => GetEdgeType(g.expCtx_, ap[1]).found
         IN IF g.isReversely_ THEN [ok |-> TRUE, props |-> edgeProps \o srcProps]
            ELSE [ok |-> known, props |-> edgeProps \o srcProps \o aliasProps]

\* mutant: the filter is pushed down on every hop
FilterPushdownArg_AnyStep(g) ==
    IF FLAGS_filter_pushdown /\ ~g.isReversely_ THEN g.filterPushdown_ ELSE ""

\* the pushdown-filter argument of stepOut
FilterPushdownArg(g) ==
    IF FLAGS_filter_pushdown /\ IsFinalStep(g) /\ ~g.isReversely_
    THEN g.filterPushdown_ ELSE ""

\* GoExecutor::stepOut: issues the getNeighbors request of the current hop
GetNeighbors(x, req) ==
    [Emit(x, "getNeighbors", req) EXCEPT !.outstanding = @ \cup {req},
                                         !.pc = "neighbors"]

\* stepOut once getStepOutProps has returned status
StepOutWith(x, status) ==
    IF ~status.ok THEN DoError(x)
    ELSE GetNeighbors(x, [NoRequest EXCEPT !.kind = "getNeighbors",
                                           !.vids = x.go.starts_,
                                           !.edgeTypes = x.go.edgeTypes_,
                                           !.filter = FilterPushdownArg(x.go),
                                           !.props = status.props,
                                           !.step = x.go.curStep_])

StepOut(x) == StepOutWith(x, GetStepOutProps(x.go))

\* ------------------------------------------------------------------ hashing
\* size_t arithmetic, at the width HashBits
HashMod == 2 ^ HashBits

RECURSIVE Xor(_, _)
Xor(a, b) ==
    IF a = 0 THEN b
    ELSE IF b = 0 THEN a
    ELSE (((a % 2) + (b % 2)) % 2) + 2 * Xor(a \div 2, b \div 2)

\* boost::hash_combine(seed, v)
HashCombine(seed, v) ==
    Xor(seed, (v + 31161 + seed * 64 + seed \div 4) % HashMod)

CharCodes(str) ==
    CASE str = "" -> <<>>
      [] str = "a" -> <<97>>
      [] str = "b" -> <<98>>
      [] str = "c" -> <<99>>
      [] str = "z" -> <<122>>

RECURSIVE HashInts(_, _)
HashInts(seed, ns) ==
    IF ns = <<>> THEN seed ELSE HashInts(HashCombine(seed, Head(ns)), Tail(ns))

WhichIndex(v) ==
    CASE v.which = "VAR_INT64" -> 0
      [] v.which = "VAR_DOUBLE" -> 1
      [] v.which = "VAR_BOOL" -> 2
      [] v.which = "VAR_STR" -> 3

\* boost::hash_value(VariantType): the hash of the held value, combined
\* with which()
HashValue(v) ==
    HashCombine(IF v.which = "VAR_STR" THEN HashInts(0, CharCodes(v.s))
                ELSE v.i % HashMod,
                WhichIndex(v))

\* boost::hash_range(record.begin(), record.end())
HashRange(record) == HashInts(0, [i \in 1..Len(record) |-> HashValue(record[i])])

\* ------------------------------------------------------------------ holders
\* VertexHolder::add
VertexHolderAdd(vh, qresp) ==
    LET vs == qresp.vertices
        entry(vd) == [t \in {vd.tag_data[i].tag_id : i \in 1..Len(vd.tag_data)} |->
                        [schema |-> TagSchema(t),
                         row |-> (CHOOSE td \in Range(vd.tag_data) : td.tag_id = t).data]]
        last(v) == CHOOSE i \in 1..Len(vs) :
                      /\ vs[i].vertex_id = v
                      /\ \A j \in 1..Len(vs) : vs[j].vertex_id = v => j <= i
    IN [vh EXCEPT !.data =
          [v \in (DOMAIN vh.data) \cup {vs[i].vertex_id : i \in 1..Len(vs)} |->
              IF \E i \in 1..Len(vs) : vs[i].vertex_id = v
              THEN entry(vs[last(v)]) ELSE vh.data[v]]]

\* VertexHolder::getDefaultProp
VertexHolderGetDefaultProp(vh, tid, prop) ==
    IF \E v \in DOMAIN vh.data : tid \in DOMAIN vh.data[v]
    THEN LET v == CHOOSE w \in DOMAIN vh.data : tid \in DOMAIN vh.data[w]
         IN GetDefaultProp(vh.data[v][tid].schema, prop)
    ELSE Err

\* VertexHolder::get
VertexHolderGet(vh, id, tid, prop) ==
    IF id \notin DOMAIN vh.data THEN VertexHolderGetDefaultProp(vh, tid, prop)
    ELSE IF tid \notin DOMAIN vh.data[id] THEN VertexHolderGetDefaultProp(vh, tid, prop)
    ELSE GetPropByName(vh.data[id][tid].row, prop)

\* EdgeHolder::add of one EdgePropResponse (its rows, each a decoded row)
RECURSIVE EdgeHolderAddRows(_, _)
EdgeHolderAddRows(eh, rows) ==
    IF rows = <<>> THEN eh
    ELSE LET row == Head(rows)
             reserved == {"_src", "_dst", "_type"} \subseteq DOMAIN row
             key == <<row["_src"].i, row["_dst"].i, row["_type"].i>>
             schema == [p \in DOMAIN row |-> FieldType(p)]
             eh1 == IF ~reserved THEN eh
                    ELSE [eh EXCEPT
                            !.data = IF key \in DOMAIN @ THEN @ ELSE MapPut(@, key, row),
                            !.schemas = IF row["_type"].i \in DOMAIN @ THEN @
                                        ELSE MapPut(@, row["_type"].i, schema)]
         IN EdgeHolderAddRows(eh1, Tail(rows))

\* mutant: the rows are stored under the traversal's (negative) edge type
EdgeHolderAdd_Signed(eh, eresp) ==
    EdgeHolderAddRows(eh, [i \in 1..Len(eresp.rows) |->
                              [eresp.rows[i] EXCEPT !["_type"] = VInt(0 - @.i)]])

EdgeHolderAdd(eh, eresp) == EdgeHolderAddRows(eh, eresp.rows)

\* mutant: a missing edge reads as the property's default
EdgeHolderGet_Defaulting(eh, src, dst, type, prop) ==
    IF <<src, dst, type>> \notin DOMAIN eh.data THEN Ok(VInt(0))
    ELSE GetPropByName(eh.data[<<src, dst, type>>], prop)

\* EdgeHolder::get
EdgeHolderGet(eh, src, dst, type, prop) ==
    IF <<src, dst, type>> \notin DOMAIN eh.data THEN Err
    ELSE GetPropByName(eh.data[<<src, dst, type>>], prop)

\* EdgeHolder::getDefaultProp
EdgeHolderGetDefaultProp(eh, type, prop) ==
    IF type \notin DOMAIN eh.schemas
    THEN IF prop \in {"_dst", "_src", "_rank"} THEN Ok(VInt(0)) ELSE Err
    ELSE GetDefaultProp(eh.schemas[type], prop)

\* ------------------------------------------------------------------ getters
\* mutant: the record's end whatever the edge named
GetEdgeDstId_AnyEdge(g, rec, edgeName) ==
    Ok(VInt(IF g.isReversely_ THEN rec.src ELSE rec.dst))

\* getters.getEdgeDstId of processFinalResult, for the edge record rec
GetEdgeDstId(g, rec, edgeName) ==
    LET t == GetEdgeType(g.expCtx_, edgeName)
    IN IF Len(g.edgeTypes_) > 1 /\ ~t.found THEN Err
       ELSE IF Len(g.edgeTypes_) > 1 /\ t.type # rec.type THEN Ok(VInt(0))
       ELSE Ok(VInt(IF g.isReversely_ THEN rec.src ELSE rec.dst))

\* mutant: the property is read from the root the back-tracker gives
GetSrcTagProp_OfRoot(g, rec, tag, prop) ==
    LET root == IF g.backTracker_.present /\ rec.src \in DOMAIN g.backTracker_.mapping
                THEN g.backTracker_.mapping[rec.src] ELSE rec.src
    IN IF root \in DOMAIN PersonName /\ prop = "name" THEN Ok(VStr(PersonName[root]))
       ELSE GetDefaultProp(TagSchema(ToTagID(tag)), prop)

\* getters.getSrcTagProp
GetSrcTagProp(g, rec, tag, prop) ==
    LET tagId == ToTagID(tag)
        mine == SelectSeq(rec.tag_data, LAMBDA td : td.tag_id = tagId)
    IN IF mine = <<>> THEN GetDefaultProp(TagSchema(tagId), prop)
       ELSE GetPropByName(mine[1].data, prop)

\* getters.getDstTagProp
GetDstTagProp(g, rec, tag, prop) ==
    VertexHolderGet(g.vertexHolder_, rec.dst, ToTagID(tag), prop)

\* InterimResult::InterimResultIndex::getColumnWithVID
GetColumnWithVID(index, id, prop) ==
    IF prop = "id" /\ id \in Range(index.ids) THEN Ok(VInt(id)) ELSE Err

\* the vertex whose input row getPropFromInterim reads for vertex id
RootOf(g, id) ==
    IF g.backTracker_.present THEN BackTrackerGet(g.backTracker_, id) ELSE id

\* GoExecutor::getPropFromInterim
GetPropFromInterim(g, id, prop) == GetColumnWithVID(g.index_, RootOf(g, id), prop)

\* getters.getAliasProp
GetAliasProp(g, rec, edgeName, prop) ==
    LET t == GetEdgeType(g.expCtx_, edgeName)
    IN IF ~t.found THEN Err
       ELSE IF g.isReversely_
       THEN IF rec.type # t.type
            THEN EdgeHolderGetDefaultProp(g.edgeHolder_, Abs(t.type), prop)
            ELSE EdgeHolderGet(g.edgeHolder_, rec.dst, rec.src, Abs(rec.type), prop)
       ELSE IF rec.type # t.type
            THEN IF t.type \notin DOMAIN rec.edge_schema THEN Err
                 ELSE GetDefaultProp(rec.edge_schema[t.type], prop)
            ELSE GetPropByName(rec.props, prop)

\* Expression::eval with the getters of the record
EvalLeaf(g, rec, l) ==
    CASE l.kind = "kEdgeDstId" -> GetEdgeDstId(g, rec, l.alias)
      [] l.kind = "kAliasProp" -> GetAliasProp(g, rec, l.alias, l.prop)
      [] l.kind = "kSourceProp" -> GetSrcTagProp(g, rec, l.alias, l.prop)
      [] l.kind = "kDestProp" -> GetDstTagProp(g, rec, l.alias, l.prop)
      [] l.kind \in {"kInputProp", "kVariableProp"} ->
              GetPropFromInterim(g, rec.src, l.prop)
      [] l.kind = "kPrimary" ->
              Ok(IF l.alias = "VAR_BOOL" THEN VBool(l.arg = 1) ELSE VInt(l.arg))

\* a relational expression compares its operand's value; v is the value of
\* Operand(e), which is e itself for a property expression
EvalOver(e, v) ==
    IF e.kind # "kRelational" THEN v
    ELSE IF v.ok THEN Ok(VBool(v.val.i > e.arg)) ELSE Err

Eval(g, rec, e) == EvalOver(e, EvalLeaf(g, rec, Operand(e)))

\* Expression::toString
ExprToString(e) ==
    CASE e.kind \in {"kEdgeDstId", "kAliasProp"} -> e.alias \o "." \o e.prop
      [] e.kind = "kSourceProp" -> "$^." \o e.alias \o "." \o e.prop
      [] e.kind = "kDestProp" -> "$$." \o e.alias \o "." \o e.prop
      [] e.kind = "kInputProp" -> "$-." \o e.prop
      [] e.kind = "kPrimary" ->
            IF e.alias = "VAR_BOOL" THEN (IF e.arg = 1 THEN "true" ELSE "false")
            ELSE ToString(e.arg)
      [] OTHER -> e.kind

\* GoExecutor::getResultColumnNames
GetResultColumnNames(g) ==
    [i \in 1..Len(g.yields_) |->
        IF g.yields_[i].alias = "" THEN ExprToString(g.yields_[i].expr)
        ELSE g.yields_[i].alias]

\* GoExecutor::calculateExprType
CalculateExprType(g, e) ==
    CASE e.kind = "kRelational" -> "BOOL"
      [] e.kind \in {"kDestProp", "kSourceProp"} ->
            IF e.alias = "person" /\ e.prop \in DOMAIN TagSchema(1)
            THEN TagSchema(1)[e.prop] ELSE "UNKNOWN"
      [] e.kind = "kEdgeDstId" -> "VID"
      [] e.kind = "kAliasProp" ->
            IF e.alias \in Range(EdgeNames)
               /\ e.prop \in DOMAIN EdgeSchema(ToEdgeType(e.alias))
            THEN EdgeSchema(ToEdgeType(e.alias))[e.prop] ELSE "UNKNOWN"
      [] e.kind \in {"kVariableProp", "kInputProp"} -> "VID"
      [] OTHER -> "UNKNOWN"

\* one cpp2::ColumnValue: the union field that is set, and its value
ColumnValue(field, v) == [field |-> field, val |-> v]

\* the switch of toThriftResponse's callback; thrown is boost::bad_get
ToColumnValue(type, v) ==
    LET get(which, field) == IF v.which = which
                             THEN [thrown |-> FALSE, col |-> ColumnValue(field, v)]
                             ELSE [thrown |-> TRUE, col |-> ColumnValue("__EMPTY__", v)]
    IN CASE type = "BOOL" -> get("VAR_BOOL", "bool_val")
         [] type = "INT" -> get("VAR_INT64", "integer")
         [] type = "DOUBLE" -> get("VAR_DOUBLE", "double_precision")
         [] type = "FLOAT" -> get("VAR_DOUBLE", "single_precision")
         [] type = "STRING" -> get("VAR_STR", "str")
         [] type = "TIMESTAMP" -> get("VAR_INT64", "timestamp")
         [] type = "VID" -> get("VAR_INT64", "id")
         [] OTHER ->
              CASE v.which = "VAR_INT64" -> get("VAR_INT64", "integer")
                [] v.which = "VAR_DOUBLE" -> get("VAR_DOUBLE", "double_precision")
                [] v.which = "VAR_BOOL" ->
                       [thrown |-> FALSE, col |-> ColumnValue("__EMPTY__", v)]
                [] v.which = "VAR_STR" -> get("VAR_STR", "str")

\* the callback of setupInterimResult: Collector::collect of each column
\* against the schema inferred from the first row
ToInterimValue(type, v) == [thrown |-> FALSE, col |-> ColumnValue("interim", v)]

\* ------------------------------------------------------------------ projection
\* the record with the value v in front, unless v or a later column failed
EvalCons(v, rest) ==
    IF ~v.ok THEN [ok |-> FALSE, vals |-> <<>>]
    ELSE [ok |-> rest.ok, vals |-> <<v.val>> \o rest.vals]

\* the yields loop of processFinalResult
RECURSIVE EvalAll(_, _, _)
EvalAll(g, rec, cols) ==
    IF cols = <<>> THEN [ok |-> TRUE, vals |-> <<>>]
    ELSE EvalCons(Eval(g, rec, Head(cols).expr), EvalAll(g, rec, Tail(cols)))

\* the row callback: toThriftResponse's or setupInterimResult's
Convert(mode, record, colTypes) ==
    LET cols == [i \in 1..Len(colTypes) |->
                    IF mode = "thrift" THEN ToColumnValue(colTypes[i], record[i])
                    ELSE ToInterimValue(colTypes[i], record[i])]
    IN [thrown |-> \E i \in 1..Len(cols) : cols[i].thrown,
        row |-> [i \in 1..Len(cols) |-> cols[i].col]]

\* mutant: no record is ever taken for a duplicate
IsDuplicate_Never(g, uniq, record) == FALSE

\* is the record dropped as a duplicate, given the hashes seen so far
IsDuplicate(g, uniq, record) == g.distinct_ /\ HashRange(record) \in uniq

\* the loop body of processFinalResult over the edge records left
\* what the loop does with one edge record: skip it, keep its row, or stop
\* with an error; pass is the filter's value, record the yields' values
Outcome(kind, uniq, row) == [kind |-> kind, uniq |-> uniq, row |-> row]

Emplace(g, uniq, hash) == IF g.distinct_ THEN uniq \cup {hash} ELSE uniq

KeepRow(g, uniq, record, row) ==
    IF row.thrown THEN Outcome("thrown", uniq, <<>>)
    ELSE Outcome("row", Emplace(g, uniq, HashRange(record)), row.row)

\* mutant: a record is projected whatever the filter's value
ProjectRecord_NoSkip(g, colTypes, mode, uniq, pass, record) ==
    IF ~pass.ok THEN Outcome("error", uniq, <<>>)
    ELSE IF ~record.ok THEN Outcome("error", uniq, <<>>)
    ELSE IF IsDuplicate(g, uniq, record.vals) THEN Outcome("skip", uniq, <<>>)
    ELSE KeepRow(g, uniq, record.vals, Convert(mode, record.vals, colTypes))

ProjectRecord(g, colTypes, mode, uniq, pass, record) ==
    IF ~pass.ok THEN Outcome("error", uniq, <<>>)
    ELSE IF pass.val.i = 0 THEN Outcome("skip", uniq, <<>>)
    ELSE IF ~record.ok THEN Outcome("error", uniq, <<>>)
    ELSE IF IsDuplicate(g, uniq, record.vals) THEN Outcome("skip", uniq, <<>>)
    ELSE KeepRow(g, uniq, record.vals, Convert(mode, record.vals, colTypes))

Filter(g, rec) ==
    IF g.filter_.kind = "none" THEN Ok(VBool(TRUE)) ELSE Eval(g, rec, g.filter_)

RECURSIVE Project(_, _, _, _, _, _)
ProjectNext(g, recs, colTypes, mode, rows, o) ==
    IF o.kind \in {"error", "thrown"} THEN [state |-> o.kind, rows |-> rows]
    ELSE Project(g, Tail(recs), colTypes, mode, o.uniq,
                 IF o.kind = "row" THEN Append(rows, o.row) ELSE rows)

Project(g, recs, colTypes, mode, uniq, rows) ==
    IF recs = <<>> THEN [state |-> "ok", rows |-> rows]
    ELSE ProjectNext(g, recs, colTypes, mode, rows,
            ProjectRecord(g, colTypes, mode, uniq, Filter(g, Head(recs)),
                          EvalAll(g, Head(recs), g.yields_)))

\* GoExecutor::processFinalResult
ColTypes(g) == [i \in 1..Len(g.yields_) |-> CalculateExprType(g, g.yields_[i].expr)]

\* mutant: processFinalResult reports success after it has called doError
FinalResult_GoesOn(x, r) ==
    [ok |-> r.state # "thrown", thrown |-> r.state = "thrown", rows |-> r.rows,
     x |-> IF r.state = "error" THEN DoError(x) ELSE x]

\* what processFinalResult leaves: doError has been called on an error of
\* the filter or of a yield
FinalResult(x, r) ==
    [ok |-> r.state = "ok", thrown |-> r.state = "thrown", rows |-> r.rows,
     x |-> IF r.state = "error" THEN DoError(x) ELSE x]

ProcessFinalResult(x, rpcResp, mode) ==
    FinalResult(x, Project(x.go, Records(rpcResp), ColTypes(x.go), mode, {}, <<>>))

\* GoExecutor::getEdgeNames
GetEdgeNames(g) == [i \in 1..Len(g.edgeTypes_) |-> ToEdgeName(Abs(g.edgeTypes_[i]))]

\* GoExecutor::finishExecution
\* mutant: only the first edge type gets a column
SynthYields_First(names) == <<Column(EdgeDstId(names[1]))>>

\* the yields finishExecution synthesizes for OVER * without YIELD
SynthYields(names) == [i \in 1..Len(names) |-> Column(EdgeDstId(names[i]))]

\* mutant: the hook is invoked whether or not the rows could be made
HandOver_HookAlways(r, names) ==
    IF onResult_
    THEN IF ~r.ok
         THEN Emit([r.x EXCEPT !.outputs =
                       Append(@, [column_names |-> names, rows |-> r.rows])],
                   "onResult", 0)
         ELSE DoFinish(Emit([r.x EXCEPT !.outputs =
                                Append(@, [column_names |-> names, rows |-> r.rows])],
                            "onResult", 0))
    ELSE IF r.thrown THEN DoError(r.x)
         ELSE IF ~r.ok THEN r.x
         ELSE DoFinish([r.x EXCEPT !.go.resp_.rows = r.rows])

\* mutant: finishExecution reports the failure of the projection itself
HandOver_ReportsAgain(r, names) ==
    IF onResult_
    THEN IF ~r.ok THEN DoError(r.x)
         ELSE DoFinish(Emit([r.x EXCEPT !.outputs =
                                Append(@, [column_names |-> names, rows |-> r.rows])],
                            "onResult", 0))
    ELSE IF ~r.ok THEN DoError(r.x)
         ELSE DoFinish([r.x EXCEPT !.go.resp_.rows = r.rows])

\* finishExecution once the rows are made: r is processFinalResult's outcome
\* and names the column names
HandOver(r, names) ==
    IF onResult_
    THEN IF ~r.ok THEN r.x
         ELSE DoFinish(Emit([r.x EXCEPT !.outputs =
                                Append(@, [column_names |-> names, rows |-> r.rows])],
                            "onResult", 0))
    ELSE IF r.thrown THEN DoError(r.x)
         ELSE IF ~r.ok THEN r.x
         ELSE DoFinish([r.x EXCEPT !.go.resp_.rows = r.rows])

\* finishExecution from the branch on onResult_ on; x has the yields set
MakeRows(x, rpcResp, names) ==
    HandOver(ProcessFinalResult(
                 IF onResult_ THEN x
                 ELSE [x EXCEPT !.go.resp_ = [present |-> TRUE, column_names |-> names,
                                              rows |-> <<>>]],
                 rpcResp, IF onResult_ THEN "interim" ELSE "thrift"),
             names)

\* finishExecution from the yields on
Projection(x, rpcResp) ==
    MakeRows(Emit(x, "finishExecution", WithEdges(Digest(rpcResp), Records(rpcResp))),
             rpcResp,
             GetResultColumnNames(x.go))

\* GoExecutor::finishExecution; names are the edge names of OVER *
Synthesized(x, rpcResp, synth, names) ==
    IF synth /\ names = <<>> THEN DoError(x)
    ELSE Projection(IF synth THEN [x EXCEPT !.go.yields_ = SynthYields(names)] ELSE x,
                    rpcResp)

FinishExecution(x, rpcResp) ==
    Synthesized(x, rpcResp, x.go.expCtx_.overAll /\ x.go.yields_ = <<>>,
                GetEdgeNames(x.go))

\* GoExecutor::onEmptyInputs
OnEmptyInputs(x) ==
    LET out == [column_names |-> GetResultColumnNames(x.go), rows |-> <<>>]
        x1 == Emit(x, "onEmptyInputs", 0)
    IN IF onResult_
       THEN DoFinish(Emit([x1 EXCEPT !.outputs = Append(@, out)], "onResult", 0))
       ELSE IF ~x1.go.resp_.present
       THEN DoFinish([x1 EXCEPT !.go.resp_ = [NoResp EXCEPT !.present = TRUE]])
       ELSE DoFinish(x1)

\* ------------------------------------------------------------------ finalize
\* GoExecutor::getDstProps
GetDstProps(g) ==
    LET dst == AnySeq(g.expCtx_.dstTagProps)
    IN [i \in 1..Len(dst) |-> PropDef("DEST", dst[i][2], ToTagID(dst[i][1]))]

\* GoExecutor::fetchVertexProps, up to the request
FetchVertexProps(x, ids, rpcResp) ==
    LET req == [NoRequest EXCEPT !.kind = "getVertexProps", !.vids = ids,
                                 !.props = GetDstProps(x.go), !.step = x.go.curStep_]
    IN [Emit(x, "getVertexProps", req) EXCEPT
          !.outstanding = @ \cup {req}, !.pc = "vertexProps",
          !.captured = [stepResp |-> rpcResp, dstids |-> ids]]

\* mutant: the key keeps the ends as the record has them
EdgeKeyOf_Unswapped(rec) ==
    [src |-> rec.src, dst |-> rec.dst, ranking |-> rec.props["_rank"].i,
     edge_type |-> Abs(rec.type)]

\* the storage::cpp2::EdgeKey built for one edge record of the final hop
EdgeKeyOf(rec) ==
    [src |-> rec.dst, dst |-> rec.src, ranking |-> rec.props["_rank"].i,
     edge_type |-> Abs(rec.type)]

\* edgeKeysMapping[type] of maybeFinishExecution
EdgeKeysOfType(recs, type) ==
    LET mine == SelectSeq(recs, LAMBDA r : Abs(r.type) = type)
    IN [i \in 1..Len(mine) |-> EdgeKeyOf(mine[i])]

\* edgePropsMapping[type] of maybeFinishExecution
EdgePropsOfType(g, type) ==
    LET mine == AnySeq({ap \in g.expCtx_.aliasProps :
                          Abs(GetEdgeType(g.expCtx_, ap[1]).type) = type})
    IN [i \in 1..Len(mine) |-> PropDef("EDGE", mine[i][2], type)]

\* the getEdgeProps requests of the reverse traversal, one per edge type
EdgePropsRequests(g, recs) ==
    {[NoRequest EXCEPT !.kind = "getEdgeProps", !.keys = EdgeKeysOfType(recs, t),
                       !.props = EdgePropsOfType(g, t), !.etype = t, !.step = g.curStep_] :
        t \in {Abs(recs[i].type) : i \in 1..Len(recs)}}

RECURSIVE EmitAll(_, _, _)
EmitAll(x, name, args) ==
    IF args = <<>> THEN x ELSE EmitAll(Emit(x, name, Head(args)), name, Tail(args))

\* mutant: a reverse traversal never projects from the final response
ProjectsDirectly_ForwardOnly(g) ==
    g.expCtx_.dstTagProps = {} /\ ~g.isReversely_

\* mutant: a forward traversal projects without looking at the
\* destination-tag properties
ProjectsDirectly_IgnoreDst(g) ==
    LET requireDstProps == g.expCtx_.dstTagProps # {}
        requireEdgeProps == g.expCtx_.aliasProps # {}
    IN \/ ~g.isReversely_
       \/ (/\ g.isReversely_ /\ ~requireDstProps /\ ~requireEdgeProps
           /\ ~(g.expCtx_.overAll /\ g.yields_ = <<>>))

\* does maybeFinishExecution project straight from the final response
ProjectsDirectly(g) ==
    LET requireDstProps == g.expCtx_.dstTagProps # {}
        requireEdgeProps == g.expCtx_.aliasProps # {}
    IN \/ (~requireDstProps /\ ~g.isReversely_)
       \/ (/\ g.isReversely_ /\ ~requireDstProps /\ ~requireEdgeProps
           /\ ~(g.expCtx_.overAll /\ g.yields_ = <<>>))

\* mutant: the destination properties are fetched first whenever some are
\* referenced
FetchProps_DstFirst(x, dstids, rpcResp) ==
    LET g == x.go
        requireDstProps == g.expCtx_.dstTagProps # {}
        recs == Records(rpcResp)
        known == \A ap \in g.expCtx_.aliasProps : GetEdgeType(g.expCtx_, ap[1]).found
        reqs == EdgePropsRequests(g, recs)
    IN IF dstids = <<>> THEN OnEmptyInputs(x)
       ELSE IF ~g.isReversely_ \/ requireDstProps
            THEN FetchVertexProps(x, dstids, rpcResp)
       ELSE IF ~known THEN DoError(x)
       ELSE [EmitAll(x, "getEdgeProps", AnySeq(reqs)) EXCEPT
               !.outstanding = @ \cup reqs, !.pc = "edgeProps",
               !.captured = [stepResp |-> rpcResp, dstids |-> dstids]]

\* maybeFinishExecution once getDstIdsFromResp has returned dstids
FetchProps(x, dstids, rpcResp) ==
    LET g == x.go
        requireDstProps == g.expCtx_.dstTagProps # {}
        requireEdgeProps == g.expCtx_.aliasProps # {}
        recs == Records(rpcResp)
        ranked == \A i \in 1..Len(recs) : "_rank" \in DOMAIN recs[i].props
        known == \A ap \in g.expCtx_.aliasProps : GetEdgeType(g.expCtx_, ap[1]).found
        reqs == EdgePropsRequests(g, recs)
    IN IF dstids = <<>> THEN OnEmptyInputs(x)
       ELSE IF ~g.isReversely_ \/ (requireDstProps /\ ~requireEdgeProps)
            THEN FetchVertexProps(x, dstids, rpcResp)
       ELSE IF ~ranked \/ ~known THEN DoError(x)
       ELSE [EmitAll(x, "getEdgeProps", AnySeq(reqs)) EXCEPT
               !.outstanding = @ \cup reqs, !.pc = "edgeProps",
               !.captured = [stepResp |-> rpcResp, dstids |-> dstids]]

\* GoExecutor::maybeFinishExecution
MaybeFinishExecution(x, rpcResp) ==
    IF ProjectsDirectly(x.go) THEN FinishExecution(x, rpcResp)
    ELSE FetchProps([x EXCEPT !.go = GetDstIdsFromResp(x.go, rpcResp).go],
                    GetDstIdsFromResp(x.go, rpcResp).ids, rpcResp)

\* mutant: steps out for the next two hops without waiting for a response
Advance_Eager(x, d) ==
    IF d.ids = <<>> THEN OnEmptyInputs([x EXCEPT !.go = [d.go EXCEPT !.starts_ = d.ids]])
    ELSE StepOut([StepOut([x EXCEPT !.go = [d.go EXCEPT !.starts_ = d.ids,
                                                        !.curStep_ = @ + 1]])
                  EXCEPT !.go.curStep_ = @ + 1])

OnStepOutResponse_Eager(x, rpcResp) ==
    IF IsFinalStep(x.go) THEN MaybeFinishExecution(x, rpcResp)
    ELSE Advance_Eager(x, GetDstIdsFromResp(x.go, rpcResp))

\* mutant: the next hop is started whether or not a destination was found
Advance_NoDeadEnd(x, d) ==
    StepOut([x EXCEPT !.go = [d.go EXCEPT !.starts_ = d.ids, !.curStep_ = @ + 1]])

\* GoExecutor::onStepOutResponse
\* onStepOutResponse on an intermediate hop; d is getDstIdsFromResp's result
Advance(x, d) ==
    IF d.ids = <<>> THEN OnEmptyInputs([x EXCEPT !.go = [d.go EXCEPT !.starts_ = d.ids]])
    ELSE StepOut([x EXCEPT !.go = [d.go EXCEPT !.starts_ = d.ids,
                                               !.curStep_ = @ + 1]])

OnStepOutResponse(x, rpcResp) ==
    IF IsFinalStep(x.go) THEN MaybeFinishExecution(x, rpcResp)
    ELSE Advance(x, GetDstIdsFromResp(x.go, rpcResp))

\* mutant: the callback does not look at the completeness
OnNeighbors_NoCheck(x, completeness, rpcResp) == OnStepOutResponse(x, rpcResp)

\* mutant: the callback treats every incomplete response as a failure
OnNeighbors_Strict(x, completeness, rpcResp) ==
    IF completeness # 100 THEN DoError(x) ELSE OnStepOutResponse(x, rpcResp)

\* the callback of stepOut's future
OnNeighbors(x, completeness, rpcResp) ==
    IF completeness = 0 THEN DoError(x) ELSE OnStepOutResponse(x, rpcResp)

\* the callback of fetchVertexProps's future
RECURSIVE AddVertexResponses(_, _)
AddVertexResponses(vh, resps) ==
    IF resps = <<>> THEN vh
    ELSE AddVertexResponses(VertexHolderAdd(vh, Head(resps)), Tail(resps))

OnVertexProps(x, completeness, result) ==
    IF completeness = 0 THEN DoError(x)
    ELSE LET vh == [x.go.vertexHolder_ EXCEPT !.present = TRUE]
             x1 == [x EXCEPT !.go.vertexHolder_ = AddVertexResponses(vh, result)]
         IN FinishExecution(Emit(x1, "vertexHolderAdd", DOMAIN x1.go.vertexHolder_.data),
                            x.captured.stepResp)

\* the callback of collectAll over the getEdgeProps futures, given the
\* completed futures in the order they were issued
RECURSIVE AddEdgeResponses(_, _)
AddEdgeResponses(eh, resps) ==
    IF resps = <<>> THEN eh
    ELSE AddEdgeResponses(EdgeHolderAdd(eh, Head(resps)), Tail(resps))

OnEdgeProps(x, results) ==
    LET thrown == \E i \in 1..Len(results) : results[i].exception
        good == IF thrown
                THEN SubSeq(results, 1,
                            (CHOOSE i \in 1..Len(results) :
                                /\ results[i].exception
                                /\ \A j \in 1..(i - 1) : ~results[j].exception) - 1)
                ELSE results
        all == Flatten([i \in 1..Len(good) |-> good[i].responses])
        x1 == [x EXCEPT !.go.edgeHolder_ = AddEdgeResponses(@, all)]
    IN IF thrown THEN DoError(x1)
       ELSE IF x1.go.expCtx_.dstTagProps # {}
            THEN FetchVertexProps(x1, x.captured.dstids, x.captured.stepResp)
       ELSE FinishExecution(x1, x.captured.stepResp)

\* GoExecutor::execute
\* execute once setupStarts has returned
AfterSetup_NoEmptyCheck(x, status) ==
    IF ~status.ok THEN DoError([x EXCEPT !.go = status.go])
    ELSE StepOut([x EXCEPT !.go = status.go])

AfterSetup(x, status) ==
    IF ~status.ok THEN DoError([x EXCEPT !.go = status.go])
    ELSE IF status.go.starts_ = <<>> THEN OnEmptyInputs([x EXCEPT !.go = status.go])
    ELSE StepOut([x EXCEPT !.go =
                    IF status.go.distinct_
                    THEN [status.go EXCEPT !.starts_ = SortedSeq(Range(@))]
                    ELSE status.go])

\* execute once prepareClauses has returned
AfterPrepare(x, status) ==
    IF ~status.ok THEN DoError([x EXCEPT !.go = status.go])
    ELSE AfterSetup(x, SetupStarts(status.go))

Execute(x) == AfterPrepare(x, PrepareClauses(x.go))

\* ------------------------------------------------------------------ actions
\* The queries checked: every sentence over a few stored graphs, and the
\* plain traversals (one edge type, no WHERE, YIELD like._dst) over every
\* stored graph of at most MaxEdges edges.
Sentence(n, u, r, o, w, h, y, d, f) ==
    [steps |-> n, upto |-> u, reversely |-> r, over |-> o, where |-> w,
     hasYield |-> h, yields |-> y, distinct |-> d, from |-> f]

ScenarioGraphs ==
    { EdgeUniverse,
      {Edge(1, 2, 1, 0, 5), Edge(7, 9, 1, 0, 1), Edge(8, 9, 1, 0, 1)} }

\* ------------------------------------------------------------------ row codec
\* src/src/dataman/NebulaCodecImpl.cpp
MaxFields == 2

\* the width of an int32_t, scaled down; the integers of a row are wider
Int32Bits == 8

FieldNames == <<"a", "b", "c">>

\* the cpp2::SupportedType values decode has a case with a body for
SupportedTypes == {"BOOL", "INT", "VID", "FLOAT", "DOUBLE", "STRING"}

\* a field of an encoded row: how it is written, and the number or the text
Cell(wire, i, s) == [wire |-> wire, i |-> i, s |-> s]

\* Value, a boost::any: the typeid of what it holds, and the number or text
Value(type, i, s) == [type |-> type, i |-> i, s |-> s]

\* the fields a row encoded against a schema can hold, by SupportedType
CellsOf(type) ==
    CASE type = "BOOL" -> {Cell("bool", 0, ""), Cell("bool", 1, "")}
      [] type = "INT" -> {Cell("varint", 7, ""),
                          Cell("varint", 2^(Int32Bits - 1), "")}
      [] type = "VID" -> {Cell("int64", 9, "")}
      [] type = "FLOAT" -> {Cell("float", 1, "")}
      [] type = "DOUBLE" -> {Cell("double", 2, "")}
      [] type = "STRING" -> {Cell("string", 0, ""), Cell("string", 0, "x")}

\* int32_t i: the integer of the row narrowed to the width of an int32_t
Narrow32(n) ==
    LET m == n % (2^Int32Bits)
    IN IF m >= 2^(Int32Bits - 1) THEN m - 2^Int32Bits ELSE m

\* the types NebulaCodecImpl::encode has a branch for
EncodableTypes == {"int", "std::string", "double", "float", "bool"}

\* writer << boost::any_cast<T>(value), on a writer without schema
WriteValue(value) ==
    Cell(CASE value.type = "int" -> "varint"
           [] value.type = "std::string" -> "string"
           [] value.type = "double" -> "double"
           [] value.type = "float" -> "float"
           [] value.type = "bool" -> "bool",
         value.i, value.s)

\* NebulaCodecImpl::encode: a value of any other type is logged and left out
RECURSIVE CodecEncode(_)
CodecEncode(values) ==
    IF values = <<>> THEN <<>>
    ELSE (IF Head(values).type \in EncodableTypes
          THEN <<WriteValue(Head(values))>>
          ELSE <<>>)
         \o CodecEncode(Tail(values))

\* one case of the switch of NebulaCodecImpl::decode: reader->getX(field, x)
\* and result[field] = x
ReadField(type, cell) ==
    CASE type = "BOOL" -> Value("bool", cell.i, cell.s)
      [] type = "INT" -> Value("int", Narrow32(cell.i), cell.s)
      [] type = "STRING" -> Value("std::string", cell.i, cell.s)
      [] type = "VID" -> Value("int64_t", cell.i, cell.s)
      [] type = "FLOAT" -> Value("float", cell.i, cell.s)
      [] type = "DOUBLE" -> Value("double", cell.i, cell.s)

\* NebulaCodecImpl::decode: the map from field name to value
CodecDecode(encoded, fields) ==
    IF encoded = <<>> \/ fields = <<>> THEN [ok |-> FALSE, result |-> EmptyMap]
    ELSE [ok |-> TRUE,
          result |-> [name \in {fields[i].name : i \in 1..Len(fields)} |->
                        LET i == CHOOSE i \in 1..Len(fields) :
                                   /\ fields[i].name = name
                                   /\ \A j \in 1..Len(fields) :
                                        fields[j].name = name => j <= i
                        IN ReadField(fields[i].type, encoded[i])]]

\* the schemas of at most MaxFields fields, and the rows encoded against one
Schemas ==
    UNION {[1..n -> SupportedTypes] : n \in 0..MaxFields}

NamedFields(types) ==
    [i \in 1..Len(types) |-> [name |-> FieldNames[i], type |-> types[i]]]

RowsOf(types) ==
    {row \in [1..Len(types) -> UNION {CellsOf(t) : t \in SupportedTypes}] :
        \A i \in 1..Len(types) : row[i] \in CellsOf(types[i])}

\* no row is at the codec
NoRow == [pc |-> "off", fields |-> <<>>, row |-> <<>>, result |-> EmptyMap,
          encoded |-> <<>>]

\* the flag makes a difference only when there is a filter to push down and
\* the traversal is forward: stepOut tests it together with !isReversely()
PushdownFor(where, reversely) ==
    IF where.kind = "none" \/ reversely THEN {TRUE} ELSE BOOLEAN

InputsFor(from) == IF from.ref = "pipe" THEN InputChoices ELSE {<<>>}

StartIn(space, sentence, g, pushdown, hook, inputs) ==
    /\ space_ = space
    /\ sentence_ = sentence
    /\ graph = g
    /\ FLAGS_filter_pushdown = pushdown
    /\ onResult_ = hook
    /\ inputs_ = inputs
    /\ go = NewExecutor
    /\ pc = "ready"
    /\ outstanding = {}
    /\ collected = {}
    /\ captured = NoCapture
    /\ events = <<>>
    /\ outputs = <<>>
    /\ codec = NoRow

Start(sentence, g, pushdown, hook, inputs) ==
    StartIn(1, sentence, g, pushdown, hook, inputs)

\* every sentence with a YIELD clause, over the scenario graphs
InitYield ==
    \E n \in 0..MaxSteps, r \in BOOLEAN, o \in OverChoices, w \in WhereChoices,
       y \in YieldLists, d \in BOOLEAN, f \in FromChoices \ {InstantFrom(<<2>>)},
       g \in ScenarioGraphs, h \in BOOLEAN :
         \E i \in InputsFor(f), p \in PushdownFor(w, r) :
            Start(Sentence(n, FALSE, r, o, w, TRUE, y, d, f), g, p, h, i)

\* every sentence without a YIELD clause, over the scenario graphs
InitNoYield ==
    \E n \in 0..MaxSteps, u \in BOOLEAN, r \in BOOLEAN, o \in OverChoices,
       f \in FromChoices \ {InstantFrom(<<2>>)},
       g \in ScenarioGraphs, h \in BOOLEAN :
         \E i \in InputsFor(f) :
            Start(Sentence(n, u, r, o, NoExpr, FALSE, <<>>, FALSE, f), g, TRUE, h, i)

\* the plain traversals, over every stored graph of Graphs
InitPlain ==
    \E n \in 0..MaxSteps, r \in BOOLEAN, d \in BOOLEAN, f \in FromChoices,
       g \in Graphs, h \in BOOLEAN :
         \E i \in InputsFor(f) :
            Start(Sentence(n, FALSE, r, <<"like">>, NoExpr, TRUE,
                           <<Column(EdgeDstId("like"))>>, d, f), g, TRUE, h, i)

\* sentences a step of the preparation rejects: no space chosen, a piped
\* column `*', an edge named twice, an aggregate in YIELD
Aggregate(e, fun) == [expr |-> e, alias |-> "", fun |-> fun]

InitRejected ==
    \E space \in {-1, 1}, n \in 1..MaxSteps,
       f \in {InstantFrom(<<1>>), PipeFrom("*")},
       o \in {<<"like">>, <<"like", "like">>},
       y \in {<<Column(EdgeDstId("like"))>>,
              <<Aggregate(EdgeDstId("like"), "COUNT")>>},
       h \in BOOLEAN :
         \E i \in InputsFor(f) :
            StartIn(space, Sentence(n, FALSE, TRUE, o,
                                    Greater(AliasProp("like", "rating"), 3),
                                    TRUE, y, TRUE, f),
                    EdgeUniverse, TRUE, h, i)

\* GO FROM 2 OVER like REVERSELY YIELD like.rating, over the edge
\* like 1->2 alone and next to a second edge like 1->2 of another rank
InitReverseRating ==
    \E g \in {{Edge(1, 2, 1, 0, 5)}, {Edge(1, 2, 1, 0, 5), Edge(1, 2, 1, 1, 6)}},
       d \in BOOLEAN, h \in BOOLEAN :
         Start(Sentence(1, FALSE, TRUE, <<"like">>, NoExpr, TRUE,
                        <<Column(AliasProp("like", "rating"))>>, d,
                        InstantFrom(<<2>>)), g, TRUE, h, <<>>)

\* GO n STEPS FROM 1 OVER like YIELD $^.person.name over {1->2, 2->3}
InitSourceName ==
    \E n \in 1..MaxSteps, d \in BOOLEAN, h \in BOOLEAN :
         Start(Sentence(n, FALSE, FALSE, <<"like">>, NoExpr, TRUE,
                        <<Column(SourceProp("person", "name"))>>, d,
                        InstantFrom(<<1>>)),
               {Edge(1, 2, 1, 0, 5), Edge(2, 3, 1, 0, 4)}, TRUE, h, <<>>)

\* YIELD serve._dst, where serve is no edge of the traversal
InitUnknownEdge ==
    \E r \in BOOLEAN, o \in {<<"like">>, <<"like", "follow">>}, h \in BOOLEAN :
         Start(Sentence(1, FALSE, r, o, NoExpr, TRUE,
                        <<Column(EdgeDstId("serve"))>>, FALSE, InstantFrom(<<1>>)),
               EdgeUniverse, TRUE, h, <<>>)

\* YIELD <literal>, like._dst with a bool or an integer literal
InitLiteral ==
    \E l \in {Primary("VAR_BOOL", 1), Primary("VAR_INT64", 7)}, r \in BOOLEAN,
       h \in BOOLEAN :
         Start(Sentence(1, FALSE, r, <<"like">>, NoExpr, TRUE,
                        <<Column(l), Column(EdgeDstId("like"))>>, FALSE,
                        InstantFrom(<<1>>)),
               EdgeUniverse, TRUE, h, <<>>)

\* a rating whose one-column record has the hash of the record of rating n
CollidingWith(n) ==
    CHOOSE m \in 1..(HashMod - 1) :
        m # n /\ HashRange(<<VInt(m)>>) = HashRange(<<VInt(n)>>)

\* GO FROM 1 OVER like YIELD [DISTINCT] like.rating over two edges whose
\* ratings differ and have the same hash
InitCollision ==
    \E d \in BOOLEAN, h \in BOOLEAN :
         Start(Sentence(1, FALSE, FALSE, <<"like">>, NoExpr, TRUE,
                        <<Column(AliasProp("like", "rating"))>>, d,
                        InstantFrom(<<1>>)),
               {Edge(1, 2, 1, 0, 5), Edge(1, 3, 1, 0, CollidingWith(5))},
               TRUE, h, <<>>)

\* GO FROM v OVER like, follow YIELD like.<prop>, where the vertices have
\* follow edges alone, or a like edge too
InitOtherEdge ==
    \E r \in BOOLEAN, prop \in {"rating", "_rank"}, h \in BOOLEAN,
       f \in {InstantFrom(<<1>>), InstantFrom(<<2>>)},
       g \in {{Edge(1, 2, 2, 0, 7)}, {Edge(1, 2, 2, 0, 7), Edge(1, 2, 1, 0, 5)}} :
         Start(Sentence(1, FALSE, r, <<"like", "follow">>, NoExpr, TRUE,
                        <<Column(AliasProp("like", prop))>>, FALSE, f),
               g, TRUE, h, <<>>)

\* a row encoded against a schema is at the codec, and no query runs
InitCodec ==
    \E types \in Schemas : \E row \in RowsOf(types) :
        /\ codec = [NoRow EXCEPT !.pc = "row", !.fields = NamedFields(types),
                                 !.row = row]
        /\ space_ = 1
        /\ sentence_ = Sentence(1, FALSE, FALSE, <<"like">>, NoExpr, FALSE, <<>>,
                                FALSE, InstantFrom(<<1>>))
        /\ graph = {}
        /\ FLAGS_filter_pushdown = TRUE
        /\ onResult_ = FALSE
        /\ inputs_ = <<>>
        /\ go = NewExecutor
        /\ pc = "off"
        /\ outstanding = {}
        /\ collected = {}
        /\ captured = NoCapture
        /\ events = <<>>
        /\ outputs = <<>>

Init ==
    \/ InitYield \/ InitNoYield \/ InitPlain
    \/ InitRejected \/ InitReverseRating \/ InitSourceName \/ InitUnknownEdge
    \/ InitLiteral \/ InitOtherEdge \/ InitCollision \/ InitCodec

Unchanged ==
    UNCHANGED <<sentence_, graph, FLAGS_filter_pushdown, onResult_, inputs_, space_,
                codec>>

Run(x) ==
    /\ go' = x.go
    /\ pc' = x.pc
    /\ outstanding' = x.outstanding
    /\ captured' = x.captured
    /\ events' = x.events
    /\ outputs' = x.outputs
    /\ Unchanged

\* the continuation at hand runs with its request consumed
Resume(req) == [Frame EXCEPT !.pc = "idle", !.outstanding = @ \ {req}]

\* the runner calls execute()
ExecuteQuery ==
    /\ pc = "ready"
    /\ Run(Execute([Frame EXCEPT !.pc = "idle"]))
    /\ UNCHANGED collected

\* a getNeighbors future completes with a value: thenValue(cb) of stepOut
NeighborsValue ==
    /\ pc = "neighbors"
    /\ IsFinalStep(go) \/ go.curStep_ < MaxCurStep
    /\ \E req \in outstanding :
         /\ req.kind = "getNeighbors"
         /\ \E failed \in SUBSET PartsOf(Range(req.vids)) :
              LET c == Completeness(PartsOf(Range(req.vids)), failed)
                  rpcResp == GetNeighborsResp(graph, req, failed)
                  x == Emit(Resume(req), "neighborsResp",
                            [completeness |-> c, step |-> req.step,
                             holds |-> Digest(rpcResp)])
              IN Run(OnNeighbors(x, c, rpcResp))
    /\ UNCHANGED collected

\* a getNeighbors future completes with an exception: thenError of stepOut
NeighborsError ==
    /\ pc = "neighbors"
    /\ \E req \in outstanding :
         /\ req.kind = "getNeighbors"
         /\ Run(DoError(Emit(Resume(req), "neighborsError", req.step)))
    /\ UNCHANGED collected

\* one getEdgeProps future completes, with a value or with an exception
EdgePropsComplete ==
    /\ pc = "edgeProps"
    /\ \E req \in outstanding :
         /\ req.kind = "getEdgeProps"
         /\ \E failed \in SUBSET KeyParts(req.keys), exception \in BOOLEAN :
              LET c == Completeness(KeyParts(req.keys), failed)
                  done == [etype |-> req.etype, exception |-> exception,
                           completeness |-> IF exception THEN 0 ELSE c,
                           responses |-> IF exception THEN <<>>
                                         ELSE GetEdgePropsResp(graph, req, failed)]
              IN /\ exception => failed = {}
                 /\ collected' = collected \cup {done}
                 /\ outstanding' = outstanding \ {req}
                 /\ events' = Append(events, Event("edgePropsResp",
                                 [etype |-> req.etype, exception |-> exception,
                                  completeness |-> done.completeness]))
    /\ UNCHANGED <<go, pc, captured, outputs>>
    /\ Unchanged

\* mutant: the continuation runs as soon as one future is complete
EdgePropsCollected_First ==
    /\ pc = "edgeProps"
    /\ collected # {}
    /\ LET byType == SortedSeq({d.etype : d \in collected})
           results == [i \in 1..Len(byType) |->
                          CHOOSE d \in collected : d.etype = byType[i]]
       IN Run(OnEdgeProps([Frame EXCEPT !.pc = "idle"], results))
    /\ collected' = {}

\* all getEdgeProps futures are complete: thenValue(cb) of collectAll
EdgePropsCollected ==
    /\ pc = "edgeProps"
    /\ outstanding = {}
    /\ LET byType == SortedSeq({d.etype : d \in collected})
           results == [i \in 1..Len(byType) |->
                          CHOOSE d \in collected : d.etype = byType[i]]
       IN Run(OnEdgeProps([Frame EXCEPT !.pc = "idle"], results))
    /\ collected' = {}

\* the getVertexProps future completes with a value
VertexPropsValue ==
    /\ pc = "vertexProps"
    /\ \E req \in outstanding :
         /\ req.kind = "getVertexProps"
         /\ \E failed \in SUBSET PartsOf(Range(req.vids)) :
              LET c == Completeness(PartsOf(Range(req.vids)), failed)
                  result == GetVertexPropsResp(req, failed)
                  x == Emit(Resume(req), "vertexPropsResp",
                            [completeness |-> c, step |-> req.step,
                             holds |-> Digest(result)])
              IN Run(OnVertexProps(x, c, result))
    /\ UNCHANGED collected

\* the getVertexProps future completes with an exception
VertexPropsError ==
    /\ pc = "vertexProps"
    /\ \E req \in outstanding :
         /\ req.kind = "getVertexProps"
         /\ Run(DoError(Emit(Resume(req), "vertexPropsError", req.step)))
    /\ UNCHANGED collected

\* a caller decodes the row with NebulaCodecImpl::decode
DecodeRow ==
    /\ codec.pc = "row"
    /\ LET status == CodecDecode(codec.row, codec.fields)
       IN codec' = [codec EXCEPT !.pc = IF status.ok THEN "decoded" ELSE "error",
                                 !.result = status.result]
    /\ UNCHANGED <<sentence_, graph, FLAGS_filter_pushdown, onResult_, inputs_,
                   space_, go, pc, outstanding, collected, captured, events,
                   outputs>>

\* the caller encodes the decoded values, in the order of the schema, with
\* NebulaCodecImpl::encode
EncodeValues ==
    /\ codec.pc = "decoded"
    /\ LET values == [i \in 1..Len(codec.fields) |->
                         codec.result[codec.fields[i].name]]
       IN codec' = [codec EXCEPT !.pc = "encoded",
                                 !.encoded = CodecEncode(values)]
    /\ UNCHANGED <<sentence_, graph, FLAGS_filter_pushdown, onResult_, inputs_,
                   space_, go, pc, outstanding, collected, captured, events,
                   outputs>>

Next ==
    \/ ExecuteQuery
    \/ NeighborsValue
    \/ NeighborsError
    \/ EdgePropsComplete
    \/ EdgePropsCollected
    \/ VertexPropsValue
    \/ VertexPropsError
    \/ DecodeRow
    \/ EncodeValues

Spec == Init /\ [][Next]_vars

\* ------------------------------------------------------------------ observations
EventAt(i, name) == i \in 1..Len(events) /\ events[i].ev = name
Called(name) == \E i \in 1..Len(events) : events[i].ev = name
CallCount(name) == Cardinality({i \in 1..Len(events) : events[i].ev = name})

\* the rows the execution has delivered: to the hook, or on the response
EmittedRows ==
    IF onResult_ THEN Flatten([i \in 1..Len(outputs) |-> outputs[i].rows])
    ELSE go.resp_.rows

RowValues(row) == [i \in 1..Len(row) |-> row[i].val]

\* the start vertices the sentence names
OriginalStarts ==
    IF sentence_.from.ref = "pipe" THEN Range(inputs_) ELSE Range(sentence_.from.vids)

\* the vertices ending a walk of exactly n edges of type t from a vertex of S
RECURSIVE WalkEnds(_, _, _, _)
WalkEnds(g, t, S, n) ==
    IF n = 0 THEN S
    ELSE WalkEnds(g, t, {e.dst : e \in {f \in g : f.src \in S /\ f.type = t}}, n - 1)

AllComplete ==
    \A i \in 1..Len(events) :
        /\ events[i].ev # "neighborsError"
        /\ events[i].ev = "neighborsResp" => events[i].arg.completeness = 100

PlainForward ==
    /\ ~sentence_.reversely
    /\ sentence_.steps >= 1
    /\ sentence_.over = <<"like">>
    /\ sentence_.where = NoExpr
    /\ sentence_.hasYield /\ ~sentence_.distinct
    /\ sentence_.yields = <<Column(EdgeDstId("like"))>>

Ended == pc = "idle"

\* ------------------------------------------------------------------ claims
\* C1: a forward traversal of N >= 1 steps over one edge type, with no WHERE,
\* YIELD like._dst and every getNeighbors response complete, ends in doFinish
\* and the set of emitted _dst values is the set of vertices ending a walk of
\* exactly N edges of that type from a start vertex.
C1_EmitsWalkEnds ==
    (PlainForward /\ AllComplete /\ Ended) =>
        /\ Called("doFinish") /\ ~Called("doError")
        /\ {EmittedRows[i][1].val.i : i \in 1..Len(EmittedRows)}
             = WalkEnds(graph, ToEdgeType("like"), OriginalStarts, sentence_.steps)

C1_Witness ==
    /\ PlainForward /\ AllComplete /\ Ended
    /\ sentence_.steps = 2
    /\ graph = {Edge(1, 2, 1, 0, 5), Edge(2, 3, 1, 0, 4)}
    /\ OriginalStarts = {1}
    /\ {EmittedRows[i][1].val.i : i \in 1..Len(EmittedRows)} = {3}

\* C2: at most one getNeighbors request is outstanding at any moment, and
\* between two getNeighbors requests the response continuation of the
\* earlier one has run.
C2_HopsSequential ==
    /\ Cardinality({r \in outstanding : r.kind = "getNeighbors"}) <= 1
    /\ \A i, j \in 1..Len(events) :
          (i < j /\ events[i].ev = "getNeighbors" /\ events[j].ev = "getNeighbors") =>
              /\ events[j].arg.step > events[i].arg.step
              /\ \E k \in (i + 1)..(j - 1) :
                    /\ events[k].ev = "neighborsResp"
                    /\ events[k].arg.step = events[i].arg.step

C2_Witness ==
    /\ CallCount("getNeighbors") = 2
    /\ Cardinality({r \in outstanding : r.kind = "getNeighbors"}) = 1

\* C3: a getNeighbors response of completeness 0, or an exception of its
\* future, is followed by doError and by nothing else: no further storage
\* request, no projection, no row.
HardFailureAt(i) ==
    \/ EventAt(i, "neighborsError")
    \/ EventAt(i, "neighborsResp") /\ events[i].arg.completeness = 0

C3_HardFailureStops ==
    \A i \in 1..Len(events) :
        HardFailureAt(i) =>
            /\ Len(events) = i + 1
            /\ events[i + 1].ev = "doError"
            /\ outstanding = {}
            /\ pc = "idle"
            /\ EmittedRows = <<>>

C3_Witness ==
    \E i \in 1..Len(events) :
        /\ EventAt(i, "neighborsResp")
        /\ events[i].arg.completeness = 0
        /\ events[i].arg.step = 2
        /\ EventAt(i + 1, "doError")

\* C4: a getNeighbors or getVertexProps response whose completeness lies
\* strictly between 0 and 100 is not answered by doError; the next stage (the
\* next hop, the fetch of the destination properties, the projection) works
\* on exactly the vertices the partial response holds.
PartialAt(i) ==
    /\ events[i].ev \in {"neighborsResp", "vertexPropsResp"}
    /\ events[i].arg.completeness > 0
    /\ events[i].arg.completeness < 100

C4_PartialContinues ==
    \A i \in 1..Len(events) :
        PartialAt(i) =>
            /\ i < Len(events)
            /\ LET n == events[i + 1]
                   h == events[i].arg.holds
               IN /\ n.ev # "doError"
                  /\ events[i].ev = "neighborsResp" =>
                       /\ n.ev \in {"getNeighbors", "getVertexProps", "getEdgeProps",
                                    "finishExecution", "onEmptyInputs"}
                       /\ n.ev = "getNeighbors" =>
                            /\ n.arg.step = events[i].arg.step + 1
                            /\ Range(n.arg.vids) = h.dsts
                       /\ n.ev = "getVertexProps" => Range(n.arg.vids) = h.dsts
                       /\ n.ev = "getEdgeProps" =>
                            {n.arg.keys[k].src : k \in 1..Len(n.arg.keys)} \subseteq h.dsts
                       /\ n.ev = "finishExecution" =>
                            (n.arg.vertices = h.vertices /\ n.arg.dsts = h.dsts)
                       /\ n.ev = "onEmptyInputs" => h.dsts = {}
                  /\ events[i].ev = "vertexPropsResp" =>
                       /\ n.ev = "vertexHolderAdd"
                       /\ n.arg = h.vertices
                       /\ EventAt(i + 2, "finishExecution")

\* a partial first hop that lost the edges of one start vertex, and the
\* second hop stepping out from what is left
C4_Witness ==
    \E i \in 1..Len(events) :
        /\ PartialAt(i)
        /\ events[i].ev = "neighborsResp"
        /\ events[i].arg.step = 1
        /\ events[i].arg.holds.dsts = {2, 3}
        /\ graph = EdgeUniverse
        /\ EventAt(i + 1, "getNeighbors")
        /\ Range(events[i + 1].arg.vids) = {2, 3}

\* C5: a response of completeness 0 to any storage round trip of the query
\* (getNeighbors, getVertexProps, each getEdgeProps of the reverse traversal)
\* makes the query end in doError and never in doFinish.
ZeroCompletenessAt(i) ==
    /\ events[i].ev \in {"neighborsResp", "vertexPropsResp", "edgePropsResp"}
    /\ events[i].arg.completeness = 0
    /\ events[i].ev = "edgePropsResp" => ~events[i].arg.exception

C5_ZeroCompletenessFails ==
    (\E i \in 1..Len(events) : ZeroCompletenessAt(i)) =>
        /\ ~Called("doFinish")
        /\ Ended => Called("doError")

\* C6: when the projection starts, a sentence that references a property of
\* the destination's tag has had a getVertexProps response of completeness
\* above 0 added to the vertex holder; a sentence that references none never
\* issues a getVertexProps request.
DstPropReferenced ==
    PropsOfKind(ExprsOf(sentence_.where, sentence_.yields), {"kDestProp"}) # {}

C6_DstPropsBeforeProjection ==
    /\ ~DstPropReferenced => ~Called("getVertexProps")
    /\ DstPropReferenced =>
         \A i \in 1..Len(events) :
            EventAt(i, "finishExecution") =>
                \E j \in 1..(i - 1) :
                    /\ EventAt(j, "vertexPropsResp")
                    /\ events[j].arg.completeness > 0
                    /\ EventAt(j + 1, "vertexHolderAdd")
                    /\ j + 1 < i
                    /\ go.vertexHolder_.present

C6_Witness ==
    /\ DstPropReferenced
    /\ ~sentence_.reversely
    /\ Called("finishExecution")
    /\ Called("doFinish")
    /\ \E j \in 1..Len(events) :
          /\ EventAt(j, "vertexPropsResp")
          /\ events[j].arg.holds.vertices # {}

\* C7: with YIELD DISTINCT no two emitted rows have equal value tuples; the
\* piped ids 7 and 8 over the edges 7->9 and 8->9, yielding like._dst, emit
\* the one row 9.
C7_DistinctRows ==
    sentence_.distinct =>
        \A i, j \in 1..Len(EmittedRows) :
            i # j => RowValues(EmittedRows[i]) # RowValues(EmittedRows[j])

C7_Witness ==
    /\ sentence_.distinct
    /\ sentence_.from.ref = "pipe" /\ inputs_ = <<7, 8>>
    /\ sentence_.steps = 1 /\ ~sentence_.reversely
    /\ sentence_.yields = <<Column(EdgeDstId("like"))>>
    /\ {Edge(7, 9, 1, 0, 1), Edge(8, 9, 1, 0, 1)} \subseteq graph
    /\ \E i \in 1..Len(events) :
          /\ EventAt(i, "neighborsResp")
          /\ events[i].arg.completeness = 100
    /\ Called("doFinish")
    /\ Len(EmittedRows) = 1
    /\ RowValues(EmittedRows[1]) = <<VInt(9)>>

\* C8: a getNeighbors request carries a pushdown filter only when the flag is
\* on, the hop is the final one and the traversal is forward; the requests of
\* intermediate hops and of reverse traversals carry the empty string.
C8_PushdownOnlyFinalForward ==
    \A i \in 1..Len(events) :
        EventAt(i, "getNeighbors") =>
            /\ events[i].arg.filter # "" =>
                  /\ FLAGS_filter_pushdown
                  /\ events[i].arg.step = sentence_.steps
                  /\ ~sentence_.reversely
            /\ (events[i].arg.step # sentence_.steps \/ sentence_.reversely) =>
                  events[i].arg.filter = ""

C8_Witness ==
    /\ sentence_.steps = 2
    /\ EventAt(1, "getNeighbors") /\ events[1].arg.filter = ""
    /\ \E i \in 2..Len(events) :
          /\ EventAt(i, "getNeighbors")
          /\ events[i].arg.step = 2
          /\ events[i].arg.filter # ""

\* C9: after preparation a back-tracker exists exactly when steps_ > 1; with
\* steps_ = 1 the root looked up for a vertex is the vertex itself.
PreparationSucceeded == pc # "ready" /\ PrepareClauses(NewExecutor).ok

C9_BackTrackerIffMultiStep ==
    PreparationSucceeded =>
        /\ go.backTracker_.present <=> go.steps_ > 1
        /\ go.steps_ = 1 => \A v \in Vertices : RootOf(go, v) = v

\* C10: the current hop never exceeds the number of steps of the sentence.
C10_StepWithinTotal == go.curStep_ <= go.steps_

\* the step of prepareClauses a sentence is rejected at, read off the sentence
RejectedAt(n) ==
    CASE n = 0 -> space_ = -1
      [] n = 1 -> sentence_.upto
      [] n = 2 -> sentence_.from.ref = "pipe" /\ sentence_.from.col = "*"
      [] n = 3 -> \E i, j \in 1..Len(sentence_.over) :
                     i # j /\ sentence_.over[i] = sentence_.over[j]
      [] n = 5 -> sentence_.hasYield
                  /\ \E i \in 1..Len(sentence_.yields) : sentence_.yields[i].fun # ""
      [] OTHER -> FALSE

\* what step n leaves in the executor once it has returned OK
StepRan(n) ==
    CASE n = 1 -> go.steps_ = sentence_.steps
      [] n = 2 -> go.fromType_ = (IF sentence_.from.ref = "pipe" THEN "kPipe"
                                  ELSE "kInstantExpr")
                  /\ go.colname_ = sentence_.from.col
      [] n = 3 -> go.isReversely_ = sentence_.reversely /\ go.edgeTypes_ # <<>>
      [] n = 4 -> go.filter_ = sentence_.where
      [] n = 5 -> sentence_.hasYield => go.yields_ = sentence_.yields
      [] OTHER -> TRUE

\* the fields step n writes are as the constructor left them
StepUntouched(n) ==
    CASE n = 1 -> go.steps_ = NewExecutor.steps_
                  /\ go.backTracker_ = NewExecutor.backTracker_
      [] n = 2 -> go.starts_ = <<>> /\ go.colname_ = NewExecutor.colname_
                  /\ go.fromType_ = NewExecutor.fromType_
      [] n = 3 -> go.edgeTypes_ = <<>> /\ go.isReversely_ = NewExecutor.isReversely_
      [] n = 4 -> go.filter_ = NoExpr /\ go.filterPushdown_ = ""
      [] n = 5 -> go.yields_ = <<>>
      [] n = 6 -> go.expCtx_.dstTagProps = {} /\ go.expCtx_.srcTagProps = {}
      [] n = 7 -> go.distinct_ = NewExecutor.distinct_
      [] OTHER -> TRUE

StoppedAt(n) ==
    /\ \A k \in 0..7 : k < n => StepRan(k)
    /\ \A k \in 0..7 : k > n => StepUntouched(k)
    /\ pc = "idle"
    /\ events = <<Event("doError", 0)>>
    /\ outstanding = {}
    /\ outputs = <<>>

\* C11: the preparation takes its steps in order (space check, STEP, FROM,
\* OVER, WHERE, YIELD, needed props, DISTINCT); at the first step that
\* rejects the sentence no later step has run, the only callback is doError
\* and no storage request has been issued.
C11_FirstRejectionStops ==
    pc # "ready" =>
        \A n \in 0..7 :
            (RejectedAt(n) /\ \A k \in 0..7 : k < n => ~RejectedAt(k)) => StoppedAt(n)

\* a sentence rejected at OVER (an edge named twice) after STEP, FROM ran,
\* with a WHERE, YIELD and DISTINCT that were never prepared
C11_Witness ==
    /\ pc = "idle"
    /\ RejectedAt(3) /\ ~RejectedAt(0) /\ ~RejectedAt(1) /\ ~RejectedAt(2)
    /\ sentence_.steps = 2 /\ go.steps_ = 2
    /\ sentence_.where # NoExpr /\ go.filter_ = NoExpr
    /\ sentence_.distinct /\ ~go.distinct_
    /\ events = <<Event("doError", 0)>>

\* the sentence names no literal id and nothing with data is fed in
EmptyStartSet == sentence_.from.vids = <<>> /\ inputs_ = <<>>

StorageRequests ==
    {i \in 1..Len(events) :
        events[i].ev \in {"getNeighbors", "getEdgeProps", "getVertexProps"}}

FinalRecords == Records(captured.stepResp)

\* is a property of rec's own edge type yielded or filtered
OwnEdgeProps(rec) ==
    {l \in Range(ExprsOf(go.filter_, go.yields_)) :
        /\ l.kind = "kAliasProp"
        /\ GetEdgeType(go.expCtx_, l.alias).found
        /\ GetEdgeType(go.expCtx_, l.alias).type = rec.type}

MissingInEdgeHolder(rec) ==
    <<rec.dst, rec.src, Abs(rec.type)>> \notin DOMAIN go.edgeHolder_.data

\* the projection of a reverse traversal has met a record whose own edge
\* property is wanted and whose edge is not in edge_holder
ProjectedMissingEdge ==
    /\ go.isReversely_
    /\ Called("finishExecution")
    /\ \E i \in 1..Len(FinalRecords) :
          OwnEdgeProps(FinalRecords[i]) # {} /\ MissingInEdgeHolder(FinalRecords[i])

\* C13: in a reverse traversal, a yielded or filtered property of the
\* record's own edge type whose edge is not in edge_holder makes the lookup
\* fail: the query ends in doError and no row is emitted.
C13_MissingEdgeFails ==
    ProjectedMissingEdge =>
        /\ pc = "idle"
        /\ events[Len(events)].ev = "doError"
        /\ ~Called("doFinish")
        /\ ~Called("onResult")
        /\ EmittedRows = <<>>

\* the edge props came back without exception but without the edge, the
\* projection ran and the query failed
C13_Witness ==
    /\ ProjectedMissingEdge
    /\ Called("edgePropsResp")
    /\ \A i \in 1..Len(events) :
          events[i].ev = "edgePropsResp" => ~events[i].arg.exception
    /\ Called("doError")

\* a one-hop reverse traversal over like that yields like.rating and nothing
\* else, without WHERE
ReverseRating ==
    /\ sentence_.reversely /\ sentence_.steps = 1
    /\ sentence_.over = <<"like">>
    /\ sentence_.where = NoExpr
    /\ sentence_.hasYield /\ ~sentence_.distinct
    /\ sentence_.yields = <<Column(AliasProp("like", "rating"))>>

\* the stored edge a reverse record stands for: from the record's
\* destination to the vertex it was found at, of its type and rank
ForwardEdges(rec) ==
    {e \in graph : /\ e.src = rec.dst /\ e.dst = rec.src
                   /\ e.type = Abs(rec.type) /\ e.rank = rec.props["_rank"].i}

\* C14: in a one-hop reverse traversal yielding an edge property, every
\* emitted row carries the value the property has on the forward edge
\* (record.dst -> start vertex) of the row's record.
C14_ReverseRowsCarryForwardProp ==
    (ReverseRating /\ Called("doFinish")) =>
        /\ Len(EmittedRows) = Len(FinalRecords)
        /\ \A i \in 1..Len(EmittedRows) :
              \E e \in ForwardEdges(FinalRecords[i]) :
                  RowValues(EmittedRows[i]) = <<VInt(e.rating)>>

\* with the edge like(1->2, rating 5) alone,
\* GO FROM 2 OVER like REVERSELY YIELD like.rating emits the one row [5]
SingleEdgeReverseRow ==
    (/\ ReverseRating /\ Called("doFinish")
     /\ graph = {Edge(1, 2, 1, 0, 5)} /\ OriginalStarts = {2}) =>
        /\ Len(EmittedRows) = 1
        /\ RowValues(EmittedRows[1]) = <<VInt(5)>>

\* a forward traversal over like that yields $^.person.name and nothing else
SourceName ==
    /\ ~sentence_.reversely /\ sentence_.steps >= 1
    /\ sentence_.over = <<"like">>
    /\ sentence_.where = NoExpr
    /\ sentence_.hasYield /\ ~sentence_.distinct
    /\ sentence_.yields = <<Column(SourceProp("person", "name"))>>

\* GO 2 STEPS FROM 1 over {1->2, 2->3}
TwoStepsFromOne ==
    /\ SourceName /\ sentence_.steps = 2
    /\ graph = {Edge(1, 2, 1, 0, 5), Edge(2, 3, 1, 0, 4)}
    /\ OriginalStarts = {1}
    /\ AllComplete /\ Called("doFinish")

NameOf(v) == IF v \in DOMAIN PersonName THEN PersonName[v] ELSE ""

\* the stored edges the final hop walks
FinalHopEdges ==
    {e \in graph : /\ e.type = 1
                   /\ e.src \in WalkEnds(graph, 1, OriginalStarts, sentence_.steps - 1)}

\* C15 as stated: the 2-step traversal from 1 over {1->2, 2->3} yielding
\* $^.person.name emits one row whose value is a, the name of the start
\* vertex the back-tracker leads to.
C15_NameOfOrigin ==
    TwoStepsFromOne =>
        /\ Len(EmittedRows) = 1
        /\ RowValues(EmittedRows[1]) = <<VStr("a")>>

\* C15 amended: a forward traversal yielding $^.person.name emits one row
\* per edge of the final hop, and the row's value is the name of that edge's
\* own source vertex (b in the 2-step traversal from 1 over {1->2, 2->3}).
C15_NameOfFinalHopSource ==
    (SourceName /\ AllComplete /\ Called("doFinish")) =>
        /\ Len(EmittedRows) = Cardinality(FinalHopEdges)
        /\ \A name \in {"a", "b", "c", "z", ""} :
              Cardinality({i \in 1..Len(EmittedRows) :
                              RowValues(EmittedRows[i]) = <<VStr(name)>>})
                  = Cardinality({e \in FinalHopEdges : NameOf(e.src) = name})

C15_Witness ==
    /\ TwoStepsFromOne
    /\ Len(EmittedRows) = 1
    /\ RowValues(EmittedRows[1]) = <<VStr("b")>>
    /\ go.backTracker_.present /\ BackTrackerGet(go.backTracker_, 2) = 1

\* OVER * without a YIELD clause whose result came out of the projection
OverAllProjected ==
    /\ sentence_.over = <<"*">> /\ ~sentence_.hasYield
    /\ Called("finishExecution") /\ Called("doFinish")

\* the edge records the projection was given
ProjectedEdges ==
    events[CHOOSE i \in 1..Len(events) : events[i].ev = "finishExecution"].arg.edges

EmittedColumnNames ==
    IF onResult_ THEN outputs[1].column_names ELSE go.resp_.column_names

\* the row of OVER * for an edge record: own in the column of the record's
\* type, 0 in the others
OverAllRow(rec, own) ==
    [j \in 1..Len(go.edgeTypes_) |->
        IF go.edgeTypes_[j] = rec.type THEN VInt(own) ELSE VInt(0)]

OverAllColumns ==
    /\ Len(go.edgeTypes_) = Len(EdgeNames)
    /\ EmittedColumnNames = [j \in 1..Len(EdgeNames) |-> EdgeNames[j] \o "._dst"]
    /\ \A j \in 1..Len(EdgeNames) : Abs(go.edgeTypes_[j]) = ToEdgeType(EdgeNames[j])
    /\ Len(EmittedRows) = Len(ProjectedEdges)

\* C16 as stated: for OVER * without YIELD the result has one column
\* <edge>._dst per edge type of the space, in edge_types order, and every
\* row holds the record's destination in the column of the record's own edge
\* type and 0 in every other column.
C16_OverAllRowsHoldDst ==
    OverAllProjected =>
        /\ OverAllColumns
        /\ \A i \in 1..Len(EmittedRows) :
              RowValues(EmittedRows[i]) =
                  OverAllRow(ProjectedEdges[i], ProjectedEdges[i].dst)

\* C16 amended: the columns are as stated; the column of the record's own
\* edge type holds the record's destination in a forward traversal and the
\* vertex the record was found at in a reverse traversal.
C16_OverAllRowsHoldEnd ==
    OverAllProjected =>
        /\ OverAllColumns
        /\ \A i \in 1..Len(EmittedRows) :
              RowValues(EmittedRows[i]) =
                  OverAllRow(ProjectedEdges[i],
                             IF go.isReversely_ THEN ProjectedEdges[i].src
                             ELSE ProjectedEdges[i].dst)

\* a reverse OVER * from 2 with a like record and a follow record, both
\* from 1: the rows hold 2, not 1
C16_Witness ==
    /\ OverAllProjected /\ go.isReversely_
    /\ \E i, j \in 1..Len(EmittedRows) :
          /\ ProjectedEdges[i].dst = 1 /\ ProjectedEdges[j].dst = 1
          /\ RowValues(EmittedRows[i]) = <<VInt(2), VInt(0)>>
          /\ RowValues(EmittedRows[j]) = <<VInt(0), VInt(2)>>

\* a traversal that yields <edge>._dst and nothing else, without WHERE,
\* whose projection has run
YieldsDstId ==
    /\ sentence_.hasYield /\ Len(sentence_.yields) = 1
    /\ sentence_.yields[1].expr.kind = "kEdgeDstId"
    /\ sentence_.where = NoExpr /\ ~sentence_.distinct
    /\ Called("finishExecution")

\* the edges the sentence traverses, and the type of the edge YIELD names
TraversedEdges == IF sentence_.over = <<"*">> THEN EdgeNames ELSE sentence_.over
YieldedEdge == sentence_.yields[1].expr.alias
YieldedIsTraversed == YieldedEdge \in Range(TraversedEdges)
SameTypeAsYielded(rec) ==
    YieldedIsTraversed /\ Abs(rec.type) = ToEdgeType(YieldedEdge)

RecordEnd(rec) == IF sentence_.reversely THEN rec.src ELSE rec.dst

\* C17 as stated: get_edge_dst_id gives 0 when more than one edge type is
\* traversed and the named edge's type is not the record's; in every other
\* case it gives the record's source in reverse mode and its destination in
\* forward mode.
C17_DstIdZeroOrEnd ==
    YieldsDstId =>
        /\ Len(EmittedRows) = Len(ProjectedEdges)
        /\ \A i \in 1..Len(EmittedRows) :
              RowValues(EmittedRows[i]) =
                  <<VInt(IF Len(TraversedEdges) > 1 /\ ~SameTypeAsYielded(ProjectedEdges[i])
                         THEN 0 ELSE RecordEnd(ProjectedEdges[i]))>>

\* C17 amended: when more than one edge type is traversed and the named
\* edge is none of them the lookup is an error and the query fails;
\* otherwise the value is as stated.
C17_DstIdZeroEndOrError ==
    YieldsDstId =>
        IF Len(TraversedEdges) > 1 /\ ~YieldedIsTraversed
        THEN ProjectedEdges # <<>> =>
                /\ Called("doError") /\ ~Called("doFinish") /\ EmittedRows = <<>>
        ELSE /\ Len(EmittedRows) = Len(ProjectedEdges)
             /\ \A i \in 1..Len(EmittedRows) :
                   RowValues(EmittedRows[i]) =
                       <<VInt(IF Len(TraversedEdges) > 1
                                 /\ ~SameTypeAsYielded(ProjectedEdges[i])
                              THEN 0 ELSE RecordEnd(ProjectedEdges[i]))>>

\* a reverse traversal over like and follow yielding like._dst: the like
\* record gives the vertex it was found at, the follow record gives 0
C17_Witness ==
    /\ YieldsDstId /\ sentence_.reversely /\ Called("doFinish")
    /\ sentence_.over = <<"like", "follow">> /\ YieldedEdge = "like"
    /\ \E i, j \in 1..Len(EmittedRows) :
          /\ ProjectedEdges[i].type = -1
          /\ RowValues(EmittedRows[i]) = <<VInt(ProjectedEdges[i].src)>>
          /\ ProjectedEdges[i].src # ProjectedEdges[i].dst
          /\ ProjectedEdges[j].type = -2
          /\ RowValues(EmittedRows[j]) = <<VInt(0)>>

\* the positions of a callback in the execution's history
PositionsOf(name) == {i \in 1..Len(events) : events[i].ev = name}

\* C18: with an on_result hook set, an execution that ends in doFinish has
\* invoked the hook exactly once, before doFinish, handing it one interim
\* result; an execution that ends in doError has never invoked the hook.
C18_HookOnceBeforeFinish ==
    onResult_ =>
        /\ Called("doFinish") =>
              /\ CallCount("onResult") = 1
              /\ Len(outputs) = 1
              /\ \A i \in PositionsOf("onResult"), j \in PositionsOf("doFinish") : i < j
        /\ Called("doError") => (~Called("onResult") /\ outputs = <<>>)

\* an execution with a hook that projected rows and finished, and one whose
\* projection failed, are both reached
C18_Witness ==
    /\ onResult_ /\ Called("doFinish") /\ Called("finishExecution")
    /\ CallCount("onResult") = 1
    /\ Len(outputs) = 1 /\ outputs[1].rows # <<>>

HookSkippedOnError ==
    /\ onResult_ /\ Called("doError") /\ Called("finishExecution")
    /\ ~Called("onResult")

\* what follows the getEdgeProps calls: the callbacks and requests of the
\* continuation of collectAll
AfterEdgeProps ==
    {k \in 1..Len(events) :
        /\ events[k].ev \in {"finishExecution", "getVertexProps", "doError",
                              "doFinish", "onResult"}
        /\ \E i \in 1..(k - 1) : events[i].ev = "getEdgeProps"}

EdgePropsException ==
    \E i \in 1..Len(events) : events[i].ev = "edgePropsResp" /\ events[i].arg.exception

\* C19: in reverse mode the continuation that fills edge_holder and goes on
\* to the vertex-props fetch or the projection runs only when every
\* getEdgeProps call issued has completed, in whatever order; when one of
\* them completed with an exception the query ends in doError and nothing is
\* projected.
C19_EdgePropsJoin ==
    /\ \A k \in AfterEdgeProps :
          Cardinality({i \in 1..(k - 1) : events[i].ev = "edgePropsResp"})
              = CallCount("getEdgeProps")
    /\ pc = "edgeProps" => go.edgeHolder_.data = NoHolder.data
    /\ (EdgePropsException /\ pc # "edgeProps") =>
          /\ pc = "idle"
          /\ events[Len(events)].ev = "doError"
          /\ CallCount("doError") = 1
          /\ ~Called("finishExecution") /\ ~Called("getVertexProps")
          /\ ~Called("doFinish") /\ EmittedRows = <<>>

\* two getEdgeProps calls answered in the reverse of the order they were
\* issued in, and the projection after both
C19_Witness ==
    /\ CallCount("getEdgeProps") = 2
    /\ \E i, j, k, l, m \in 1..Len(events) :
          /\ i < j /\ j < k /\ k < l /\ l < m
          /\ events[i].ev = "getEdgeProps" /\ events[j].ev = "getEdgeProps"
          /\ events[k].ev = "edgePropsResp" /\ events[l].ev = "edgePropsResp"
          /\ events[k].arg.etype = events[j].arg.etype
          /\ events[l].arg.etype = events[i].arg.etype
          /\ events[m].ev = "finishExecution"
    /\ go.edgeHolder_.data # NoHolder.data

\* C20: once doError has been called nothing follows it in the execution:
\* no hook, no doFinish, no second doError, no storage request, and the
\* terminal response is left without rows.
C20_NothingAfterDoError ==
    \A k \in PositionsOf("doError") :
        /\ k = Len(events)
        /\ pc = "idle"
        /\ outstanding = {}
        /\ go.resp_.rows = <<>>
        /\ ~Called("doFinish")

\* doError called by the projection, in terminal mode, after rows of
\* earlier records had been made
C20_Witness ==
    /\ ~onResult_
    /\ \E k \in PositionsOf("doError") :
          k > 1 /\ events[k - 1].ev = "finishExecution"
                /\ Len(events[k - 1].arg.edges) > 1
    /\ go.resp_.present /\ go.resp_.rows = <<>>

\* a forward traversal that yields $$.person.name and nothing else, without
\* WHERE, whose projection has run
YieldsDstName ==
    /\ ~sentence_.reversely
    /\ sentence_.where = NoExpr
    /\ sentence_.hasYield /\ ~sentence_.distinct
    /\ sentence_.yields = <<Column(DestProp("person", "name"))>>
    /\ Called("finishExecution")

\* C21: VertexHolder get gives the default of the property in the tag's
\* schema whenever the vertex is not in the holder or holds no data for the
\* tag, whatever the holder contains (also when no stored vertex carries the
\* tag): every record of a traversal yielding $$.person.name gets a row, with
\* the name of its destination or the default "".
C21_DefaultWhenMissing ==
    YieldsDstName =>
        /\ Called("doFinish")
        /\ Len(EmittedRows) = Len(ProjectedEdges)
        /\ \A i \in 1..Len(EmittedRows) :
              RowValues(EmittedRows[i]) = <<VStr(NameOf(ProjectedEdges[i].dst))>>

\* C22: whatever get_edge_props responses have been added, every key of
\* edge_holder's edge map and every key of its schema map has a positive
\* edge type.
C22_EdgeHolderTypesPositive ==
    /\ \A key \in DOMAIN go.edgeHolder_.data : key[3] > 0
    /\ \A type \in DOMAIN go.edgeHolder_.schemas : type > 0

\* a reverse traversal over like and follow (types -1 and -2) whose holder
\* has taken an edge of each
C22_Witness ==
    /\ go.isReversely_ /\ go.edgeTypes_ = <<-1, -2>>
    /\ \E k1, k2 \in DOMAIN go.edgeHolder_.data : k1[3] = 1 /\ k2[3] = 2
    /\ DOMAIN go.edgeHolder_.schemas = {1, 2}

\* the columns of the rows set on the terminal response
TerminalColumns ==
    {<<i, j>> \in (1..Len(go.resp_.rows)) \X (1..Len(go.yields_)) :
        j <= Len(go.resp_.rows[i])}

\* C23: in terminal mode every column of every emitted row carries a value:
\* set by its inferred type, or, for a type outside the known ones, by the
\* runtime kind of the value (bool as bool, integer as i64, double as f64,
\* string as string).
C23_EveryColumnCarriesValue ==
    (~onResult_ /\ Called("doFinish")) =>
        \A c \in TerminalColumns :
            LET col == go.resp_.rows[c[1]][c[2]]
                type == CalculateExprType(go, go.yields_[c[2]].expr)
            IN /\ col.field # "__EMPTY__"
               /\ type = "UNKNOWN" =>
                    col.field = (CASE col.val.which = "VAR_BOOL" -> "bool_val"
                                   [] col.val.which = "VAR_INT64" -> "integer"
                                   [] col.val.which = "VAR_DOUBLE" -> "double_precision"
                                   [] col.val.which = "VAR_STR" -> "str")

\* C24: for every schema with field types in {BOOL, INT, VID, FLOAT, DOUBLE,
\* STRING} and every row encoded against it, decoding the row and encoding
\* the decoded values again, in the order of the schema, gives the row back.
C24_RoundTrip ==
    codec.pc = "encoded" => codec.encoded = codec.row

\* the round trip of the rows without a VID field whose integers fit 32 bits
RoundTripWithoutVid ==
    (/\ codec.pc = "encoded"
     /\ \A i \in 1..Len(codec.fields) :
          /\ codec.fields[i].type # "VID"
          /\ codec.row[i].i = Narrow32(codec.row[i].i))
        => codec.encoded = codec.row


\* the properties the sentence refers to, by kind of expression
Referenced(kinds) ==
    PropsOfKind(ExprsOf(sentence_.where, sentence_.yields), kinds)

\* the property list the claim gives for a hop
ExpectedProps(final) ==
    LET types == Range(go.edgeTypes_)
    IN {PropDef("EDGE", "_dst", t) : t \in types}
       \cup (IF final /\ go.isReversely_
             THEN {PropDef("EDGE", "_rank", t) : t \in types} ELSE {})
       \cup (IF final
             THEN {PropDef("SOURCE", p[2], ToTagID(p[1])) :
                      p \in Referenced({"kSourceProp"})}
             ELSE {})
       \cup (IF final /\ ~go.isReversely_
             THEN {PropDef("EDGE", p[2], ToEdgeType(p[1])) :
                      p \in {q \in Referenced({"kAliasProp", "kEdgeDstId"}) :
                                q[2] # "_dst"}}
             ELSE {})

\* C25: the property list of a get_neighbors request holds, on a non-final
\* hop, exactly one _DST per traversed edge type; on the final hop one _DST
\* per edge type, one _RANK per edge type iff the traversal is reverse, every
\* referenced source-tag property, and every referenced edge-alias property
\* other than _DST iff the traversal is not reverse; nothing is listed twice.
C25_NeighborProps ==
    Called("getNeighbors") =>
        LET nonFinal == ExpectedProps(FALSE)
            final == ExpectedProps(TRUE)
        IN \A i \in 1..Len(events) :
              events[i].ev = "getNeighbors" =>
                  LET req == events[i].arg
                      expected == IF req.step = go.steps_ THEN final ELSE nonFinal
                  IN /\ Range(req.props) = expected
                     /\ Len(req.props) = Cardinality(expected)

\* a forward traversal of two hops over like and follow that yields
\* like._dst and like.rating has issued both requests; a reverse one
\* asks for the ranks and not for the rating
C25_Witness ==
    /\ Len(go.edgeTypes_) = 2
    /\ Referenced({"kAliasProp"}) # {}
    /\ \E i, j \in 1..Len(events) :
         /\ events[i].ev = "getNeighbors" /\ events[i].arg.step = 1
         /\ Len(events[i].arg.props) = 2
         /\ events[j].ev = "getNeighbors" /\ events[j].arg.step = 2
         /\ go.steps_ = 2
         /\ IF go.isReversely_ THEN Len(events[j].arg.props) = 4
            ELSE Len(events[j].arg.props) = 3


\* the response of the final hop, as handed to the projection
ProjectedResponse ==
    events[CHOOSE i \in 1..Len(events) : events[i].ev = "finishExecution"].arg

\* the final hop's response is at hand or has been handled
AtFinalHop == pc \in {"neighbors", "edgeProps", "vertexProps"} /\ IsFinalStep(go)

BackTrackerKept == AtFinalHop => go.backTracker_' = go.backTracker_

\* at the start of the projection of a traversal of more than one step, the
\* sources of the final response are keys of the back-tracker and its values
\* are original start vertices
BackTrackerCovers ==
    (go.steps_ > 1 /\ Called("finishExecution")) =>
        /\ go.backTracker_.present
        /\ ProjectedResponse.vertices \subseteq DOMAIN go.backTracker_.mapping
        /\ \A v \in DOMAIN go.backTracker_.mapping :
              go.backTracker_.mapping[v] \in OriginalStarts

\* C26: in a traversal of more than one step, when the projection starts
\* every source vertex of the final hop's response is a key of the
\* back-tracker, every value the back-tracker stores is one of the original
\* start vertices, and no step that handles the final hop's response changes
\* the back-tracker.
C26_BackTrackerAtProjection ==
    []BackTrackerCovers /\ [][go.steps_ > 1 => BackTrackerKept]_vars

\* two start vertices, one of them the end of an edge of the other: the
\* final response of the second hop is projected with the back-tracker set
C26_Witness ==
    /\ go.steps_ = 2 /\ Called("finishExecution")
    /\ Cardinality(OriginalStarts) = 2
    /\ ProjectedResponse.vertices # {}
    /\ ProjectedResponse.dsts # {}
    /\ \E v \in DOMAIN go.backTracker_.mapping :
          v \in OriginalStarts /\ go.backTracker_.mapping[v] # v


\* a response of a non-final hop that the callback went on with
NonFinalResponseAt(i) ==
    /\ EventAt(i, "neighborsResp")
    /\ events[i].arg.completeness # 0
    /\ events[i].arg.step # go.steps_

\* C27: after a non-final hop the start set of the next hop is exactly the
\* set of the destination ids of all edges of all shard responses, each
\* vertex id once; with no destination at all there is no next hop.
C27_NextStartsAreDsts ==
    \A i \in 1..Len(events) :
        NonFinalResponseAt(i) =>
            LET dsts == events[i].arg.holds.dsts
                next == events[i + 1]
            IN IF dsts = {} THEN next.ev = "onEmptyInputs"
               ELSE /\ next.ev = "getNeighbors"
                    /\ next.arg.step = events[i].arg.step + 1
                    /\ Range(next.arg.vids) = dsts
                    /\ Len(next.arg.vids) = Cardinality(dsts)

\* the second hop starts from the two destinations of the first response,
\* the start vertices having more than two stored edges
C27_Witness ==
    \E i \in 1..Len(events) :
        /\ NonFinalResponseAt(i)
        /\ Cardinality(events[i].arg.holds.dsts) = 2
        /\ Cardinality({e \in graph : e.src \in OriginalStarts}) > 2
        /\ events[i + 1].ev = "getNeighbors"
        /\ Len(events[i + 1].arg.vids) = 2


\* a response of the final hop that the callback went on with
FinalResponseAt(i) ==
    /\ EventAt(i, "neighborsResp")
    /\ events[i].arg.completeness # 0
    /\ events[i].arg.step = go.steps_

\* no destination-tag property is referenced, and the traversal is forward
\* or refers to no edge-alias property
NeedsNoFetch ==
    /\ Referenced({"kDestProp"}) = {}
    /\ ~sentence_.reversely \/ Referenced({"kAliasProp", "kEdgeDstId"}) = {}

\* the projection starts right after the response at i, and no get_edge_props
\* or get_vertex_props request is ever issued
ProjectsFrom(i) ==
    /\ events[i + 1].ev = "finishExecution"
    /\ ~Called("getEdgeProps") /\ ~Called("getVertexProps")

\* OVER * without a YIELD clause, in reverse
ReverseOverAllNoYield ==
    sentence_.reversely /\ sentence_.over = <<"*">> /\ ~sentence_.hasYield

ReverseOverAllFetches ==
    /\ ReverseOverAllNoYield /\ NeedsNoFetch
    /\ \E i \in 1..Len(events) : FinalResponseAt(i) /\ events[i + 1].ev = "getEdgeProps"


\* the response at i is the final one of a reverse traversal that does not
\* project from it, and it holds a destination
ReverseFetchAt(i) ==
    /\ sentence_.reversely
    /\ FinalResponseAt(i)
    /\ events[i].arg.holds.dsts # {}
    /\ ~NeedsNoFetch \/ ReverseOverAllNoYield

\* only destination-tag properties are referenced
OnlyDstProps ==
    /\ Referenced({"kDestProp"}) # {}
    /\ Referenced({"kAliasProp", "kEdgeDstId"}) = {}

\* every referenced edge alias names an edge of the OVER list
AliasesKnown ==
    \A p \in Referenced({"kAliasProp", "kEdgeDstId"}) :
        GetEdgeType(go.expCtx_, p[1]).found

\* the get_edge_props requests follow the response at i, and each
\* get_vertex_props request and the projection come after all of them and
\* after as many completions
EdgePropsFirstFrom(i) ==
    /\ events[i + 1].ev = "getEdgeProps"
    /\ \A k \in 1..Len(events) :
          events[k].ev \in {"getVertexProps", "finishExecution"} =>
              /\ \A j \in 1..Len(events) : events[j].ev = "getEdgeProps" => j < k
              /\ Cardinality({j \in 1..k : events[j].ev = "edgePropsResp"})
                   = CallCount("getEdgeProps")

\* C29 as stated: in a reverse traversal that does not project directly and
\* whose final hop has a destination, the get_edge_props calls are issued
\* and all complete before any get_vertex_props request and before the
\* projection, also when only destination-tag properties are referenced.
C29_EdgePropsBeforeVertexProps ==
    (sentence_.reversely /\ Called("neighborsResp")) =>
        \A i \in 1..Len(events) :
            (ReverseFetchAt(i) /\ AliasesKnown) => EdgePropsFirstFrom(i)

\* C29, amended: the same when some edge-alias property is referenced or
\* nothing is (OVER * without YIELD); when only destination-tag properties
\* are referenced, the get_vertex_props request follows the response and no
\* get_edge_props call is made.
C29_EdgePropsFirstUnlessOnlyDst ==
    (sentence_.reversely /\ Called("neighborsResp")) =>
        \A i \in 1..Len(events) :
            (ReverseFetchAt(i) /\ AliasesKnown) =>
                IF OnlyDstProps
                THEN events[i + 1].ev = "getVertexProps" /\ ~Called("getEdgeProps")
                ELSE EdgePropsFirstFrom(i)

\* a reverse traversal yielding like.rating and $$.person.name has asked
\* for the edge properties, got them, and then asked for the vertices
C29_Witness ==
    /\ sentence_.reversely
    /\ Referenced({"kDestProp"}) # {} /\ Referenced({"kAliasProp"}) # {}
    /\ \E i \in 1..Len(events) : ReverseFetchAt(i) /\ EdgePropsFirstFrom(i)
    /\ Called("getVertexProps")
    /\ CallCount("edgePropsResp") = CallCount("getEdgeProps")

\* a reverse traversal yielding $$.person.name alone asks for the vertices
\* right after the final response
ReverseOnlyDstFetchesVertices ==
    /\ OnlyDstProps
    /\ \E i \in 1..Len(events) :
          ReverseFetchAt(i) /\ events[i + 1].ev = "getVertexProps"


\* the get_edge_props requests issued so far
EdgePropsCalls ==
    {i \in 1..Len(events) : events[i].ev = "getEdgeProps"}

\* the records among recs whose edge type is t or -t
RecordsOfType(recs, t) ==
    {i \in 1..Len(recs) : Abs(recs[i].type) = t}

\* the key the claim gives for the record (v, d, r, t)
KeyFor(rec) ==
    [src |-> rec.dst, dst |-> rec.src, ranking |-> rec.props["_rank"].i,
     edge_type |-> IF rec.type < 0 THEN 0 - rec.type ELSE rec.type]

\* C30: in the edge-fetch phase of a reverse traversal there is exactly one
\* get_edge_props call per positive edge type with a record in the final
\* response, and its keys are, one per record (v, d, r, t) of that type, the
\* keys (src = d, dst = v, ranking = r, type = |t|).
C30_OneKeyPerRecord ==
    pc = "edgeProps" =>
        LET recs == FinalRecords
            calls == EdgePropsCalls
        IN /\ \A t \in 1..Len(EdgeNames) :
                 Cardinality({i \in calls : events[i].arg.etype = t})
                    = (IF RecordsOfType(recs, t) = {} THEN 0 ELSE 1)
           /\ \A i \in calls :
                 LET req == events[i].arg
                     mine == RecordsOfType(recs, req.etype)
                 IN /\ req.etype > 0
                    /\ Len(req.keys) = Cardinality(mine)
                    /\ Range(req.keys) = {KeyFor(recs[r]) : r \in mine}

\* a request of two keys that differ in the ranking alone, or one request
\* for each of two edge types, one of them with several keys
C30_Witness ==
    /\ pc = "edgeProps"
    /\ \/ \E i \in EdgePropsCalls :
            /\ Len(events[i].arg.keys) = 2
            /\ events[i].arg.keys[1].ranking # events[i].arg.keys[2].ranking
            /\ events[i].arg.keys[1].src = 1 /\ events[i].arg.keys[1].dst = 2
       \/ /\ Cardinality(EdgePropsCalls) = 2
          /\ \E i \in EdgePropsCalls : Len(events[i].arg.keys) > 1


\* the position of the last call of name in the execution's history
LastIndexOf(name) ==
    CHOOSE i \in 1..Len(events) :
        /\ events[i].ev = name
        /\ \A j \in (i + 1)..Len(events) : events[j].ev # name

\* the response the projection reads: storage's answer to the last
\* getNeighbors request, from the parts whose vertices the response held
ProjectedRpcResp ==
    LET req == events[LastIndexOf("getNeighbors")].arg
        holds == events[LastIndexOf("neighborsResp")].arg.holds
    IN GetNeighborsResp(graph, req, PartsOf(Range(req.vids)) \ PartsOf(holds.vertices))

\* the filter's value on rec is true
Passes(rec) == Filter(go, rec).ok /\ Filter(go, rec).val.i # 0

\* the filter's value on rec is an error, or rec passes the filter and the
\* value of one of the yields is an error
FailsOn(rec) ==
    \/ ~Filter(go, rec).ok
    \/ Passes(rec) /\ ~EvalAll(go, rec, go.yields_).ok

\* what the projection makes of one record: no row when the filter is
\* false, an error when the filter or a yield is one, else the yields' values
Verdict(rec) ==
    LET pass == Filter(go, rec)
    IN IF ~pass.ok THEN [kind |-> "error", vals |-> <<>>]
       ELSE IF pass.val.i = 0 THEN [kind |-> "skip", vals |-> <<>>]
       ELSE LET record == EvalAll(go, rec, go.yields_)
            IN IF record.ok THEN [kind |-> "row", vals |-> record.vals]
               ELSE [kind |-> "error", vals |-> <<>>]

\* the values of the yields on the records that pass the filter, in order
KeptValues(recs) ==
    LET kept == SelectSeq([i \in 1..Len(recs) |-> Verdict(recs[i])],
                          LAMBDA v : v.kind = "row")
    IN [k \in 1..Len(kept) |-> kept[k].vals]

\* the projection has run to its end, over the records recs of response resp
ProjectionOver(resp, recs) ==
    LET verdicts == [i \in 1..Len(recs) |-> Verdict(recs[i])]
        kept == SelectSeq(verdicts, LAMBDA v : v.kind = "row")
        rows == [i \in 1..Len(EmittedRows) |-> RowValues(EmittedRows[i])]
    IN /\ IF \E i \in 1..Len(recs) : verdicts[i].kind = "error"
          THEN /\ events[Len(events)].ev = "doError"
               /\ ~Called("doFinish") /\ ~Called("onResult")
               /\ rows = <<>>
          ELSE /\ Called("doFinish") /\ ~Called("doError")
               /\ IF go.distinct_
                  THEN \A i \in 1..Len(rows) :
                          \E k \in 1..Len(kept) : rows[i] = kept[k].vals
                  ELSE rows = [k \in 1..Len(kept) |-> kept[k].vals]
       /\ WithEdges(Digest(resp), recs) = ProjectedResponse

\* C31: a record on which the WHERE filter is false gets no row: the rows
\* emitted are those of the records that pass the filter, in order (with
\* DISTINCT, some of them); and when the filter or a yield is an error on a
\* record the query ends in doError, without doFinish, without the hook and
\* with no row delivered.
C31_FilterSkipsErrorsAbort ==
    (pc = "idle" /\ Called("finishExecution")) =>
        LET resp == ProjectedRpcResp
        IN ProjectionOver(resp, Records(resp))

\* a reverse traversal with WHERE like.rating > 3: two records passed the
\* filter and had their values computed, the third was not in edge_holder
C31_Witness ==
    /\ pc = "idle" /\ Called("finishExecution")
    /\ sentence_.where # NoExpr
    /\ LET recs == Records(ProjectedRpcResp)
       IN \E i \in 1..Len(recs) :
             /\ FailsOn(recs[i])
             /\ \E j \in 1..(i - 1) : Passes(recs[j]) /\ ~FailsOn(recs[j])
    /\ Called("doError") /\ EmittedRows = <<>>

\* a record with a rating of at most 3 was skipped and another one kept
FilteredOutRecord ==
    /\ pc = "idle" /\ Called("finishExecution") /\ Called("doFinish")
    /\ sentence_.where # NoExpr
    /\ LET recs == Records(ProjectedRpcResp)
       IN /\ \E i \in 1..Len(recs) : ~Passes(recs[i]) /\ ~FailsOn(recs[i])
          /\ EmittedRows # <<>>
          /\ Len(EmittedRows) < Len(recs)


\* the edge-alias properties the sentence reads whose edge is traversed and
\* is not the edge of rec
OtherEdgeProps(rec) ==
    {l \in Range(ExprsOf(go.filter_, go.yields_)) :
        /\ l.kind = "kAliasProp"
        /\ GetEdgeType(go.expCtx_, l.alias).found
        /\ GetEdgeType(go.expCtx_, l.alias).type # rec.type}

\* the default value of an edge property (0 for an integer or a vertex id)
DefaultOfProp(prop) == DefaultOfType(FieldType(prop))

\* every property of another edge read on a record of recs is its default
OtherEdgeReadsDefault(recs) ==
    \A i \in 1..Len(recs) :
        \A l \in OtherEdgeProps(recs[i]) :
            GetAliasProp(go, recs[i], l.alias, l.prop) = Ok(DefaultOfProp(l.prop))

\* every storage response so far came from all the parts asked
EveryResponseComplete ==
    \A i \in 1..Len(events) :
        events[i].ev \in {"neighborsResp", "edgePropsResp", "vertexPropsResp"} =>
            events[i].arg.completeness = 100

\* the projection of a traversal of several edge types has run
SeveralTypesProjected ==
    /\ pc = "idle" /\ Called("finishExecution")
    /\ Len(go.edgeTypes_) > 1

OtherEdgeDefaultWithSchema ==
    SeveralTypesProjected =>
        LET recs == Records(ProjectedRpcResp)
        IN \A i \in 1..Len(recs) :
              \A l \in OtherEdgeProps(recs[i]) :
                 (\/ ~go.isReversely_
                  \/ l.prop \in {"_src", "_dst", "_rank"}
                  \/ Abs(GetEdgeType(go.expCtx_, l.alias).type)
                        \in DOMAIN go.edgeHolder_.schemas) =>
                    GetAliasProp(go, recs[i], l.alias, l.prop)
                        = Ok(DefaultOfProp(l.prop))

\* a reverse traversal read like.rating on a follow record alone, with no
\* like edge fetched, and failed
ReverseOtherEdgeFails ==
    /\ SeveralTypesProjected /\ go.isReversely_
    /\ graph = {Edge(1, 2, 2, 0, 7)}
    /\ sentence_.yields = <<Column(AliasProp("like", "rating"))>>
    /\ EveryResponseComplete
    /\ Called("doError") /\ EmittedRows = <<>>

\* a forward traversal read like.rating on a follow record and gave 0
ForwardOtherEdgeDefault ==
    /\ SeveralTypesProjected /\ ~go.isReversely_
    /\ graph = {Edge(1, 2, 2, 0, 7)}
    /\ sentence_.yields = <<Column(AliasProp("like", "rating"))>>
    /\ Called("doFinish") /\ Len(EmittedRows) = 1
    /\ RowValues(EmittedRows[1]) = <<VInt(0)>>


\* the calls of the two final callbacks so far
FinalCalls == CallCount("doFinish") + CallCount("doError")

\* C33: an execution never calls doFinish or doError a second time, nor
\* both, and once a handler has returned without leaving a storage request
\* or a continuation behind, exactly one of them has been called.
C33_ExactlyOneFinalCall ==
    /\ FinalCalls <= 1
    /\ pc = "idle" => FinalCalls = 1 /\ outstanding = {}
    /\ pc \in {"neighbors", "edgeProps", "vertexProps"} => FinalCalls = 0

\* the projection failed on a record after the edge properties came in:
\* processFinalResult has called doError and finishExecution has returned
\* without a call of its own
C33_Witness ==
    /\ pc = "idle"
    /\ Called("edgePropsResp") /\ Called("finishExecution")
    /\ CallCount("doError") = 1 /\ CallCount("doFinish") = 0
    /\ events[Len(events)].ev = "doError"


\* C34: an execution sends at most as many get_neighbors requests as the
\* sentence has steps, so that it ends after the last of them.
C34_RequestsWithinSteps == CallCount("getNeighbors") <= go.steps_

\* the bound holds for every sentence of at least one step
RequestsWithinPositiveSteps ==
    go.steps_ >= 1 => CallCount("getNeighbors") <= go.steps_

\* a sentence of 0 steps on a cycle: the third request is pending, for the
\* start vertices of the first one, and no hop was taken for the final one
ZeroStepsRevisit ==
    /\ go.steps_ = 0 /\ pc = "neighbors"
    /\ CallCount("getNeighbors") = 3
    /\ ~Called("finishExecution")
    /\ \E i, j \in 1..Len(events) :
          /\ i < j /\ EventAt(i, "getNeighbors") /\ EventAt(j, "getNeighbors")
          /\ events[i].arg.vids = events[j].arg.vids


\* C35: with DISTINCT, a record that passes the filter is left without a
\* row only if a row of the same values is emitted: the tuple of every such
\* record is among the rows of the successful response.
C35_DistinctKeepsDifferingTuples ==
    (pc = "idle" /\ go.distinct_ /\ Called("finishExecution") /\ Called("doFinish")) =>
        LET kept == KeptValues(Records(ProjectedRpcResp))
            rows == EmittedRows
        IN \A k \in 1..Len(kept) :
              \E i \in 1..Len(rows) : RowValues(rows[i]) = kept[k]

\* without a collision of hashes DISTINCT drops equal tuples only
DistinctKeepsWhenHashesDiffer ==
    (pc = "idle" /\ go.distinct_ /\ Called("finishExecution") /\ Called("doFinish")) =>
        LET kept == KeptValues(Records(ProjectedRpcResp))
            rows == EmittedRows
        IN \A k \in 1..Len(kept) :
              \/ \E i \in 1..Len(rows) : RowValues(rows[i]) = kept[k]
              \/ \E j \in 1..(k - 1) :
                    kept[j] # kept[k] /\ HashRange(kept[j]) = HashRange(kept[k])


\* two stored edges between the same vertices, of one type, that differ by
\* rank and by rating
RankTwins(e, f) ==
    /\ e.src = f.src /\ e.dst = f.dst /\ e.type = f.type
    /\ e.rank # f.rank /\ e.rating # f.rating

\* C36: in a reverse traversal yielding like.rating, when two forward edges
\* into a start vertex differ only by rank and value, the response has a
\* row for each of them, carrying the edge's own rating.
C36_EachRankItsOwnValue ==
    (ReverseRating /\ EveryResponseComplete /\ Called("doFinish")) =>
        \A e \in graph, f \in graph :
            (RankTwins(e, f) /\ e.dst \in OriginalStarts) =>
                /\ Len(EmittedRows) = 2
                /\ \E i \in 1..2 : RowValues(EmittedRows[i]) = <<VInt(e.rating)>>


\* the projection of a forward traversal over like of more than one step
\* has started
MultiStepProjected ==
    /\ go.steps_ > 1 /\ Called("finishExecution")
    /\ ~sentence_.reversely /\ sentence_.over = <<"like">>

\* v ends a walk of exactly steps_ - 1 edges from the root looked up for it
RootReaches(v) ==
    /\ RootOf(go, v) \in OriginalStarts
    /\ v \in WalkEnds(graph, 1, {RootOf(go, v)}, go.steps_ - 1)

\* C37: in a traversal of more than one step, the root the back-tracker
\* gives for every source vertex of the final hop is a start vertex from
\* which that vertex is reached by a walk of exactly steps - 1 edges.
C37_RootReachesSource ==
    MultiStepProjected => \A v \in ProjectedResponse.vertices : RootReaches(v)

\* with one start vertex the root of every source of the final hop reaches it
RootReachesFromOneStart ==
    (MultiStepProjected /\ Cardinality(OriginalStarts) = 1) =>
        \A v \in ProjectedResponse.vertices : RootReaches(v)


\* the start vertices 1 and 2 on the cycle 1->2, 2->1, two steps: the root
\* looked up for a source of the final hop does not reach it in one edge
CycleStartsShareRoot ==
    /\ MultiStepProjected /\ go.steps_ = 2 /\ EveryResponseComplete
    /\ graph = {Edge(1, 2, 1, 0, 5), Edge(2, 1, 1, 0, 2)}
    /\ OriginalStarts = {1, 2}
    /\ ProjectedResponse.vertices = {1, 2}
    /\ RootOf(go, 1) = RootOf(go, 2)


\* a two-step forward traversal over like from a piped input, yielding $-.id,
\* has ended in doFinish with every response complete
PipedTwoSteps ==
    /\ pc = "idle" /\ go.steps_ = 2
    /\ sentence_.from.ref = "pipe" /\ ~sentence_.reversely
    /\ sentence_.over = <<"like">> /\ sentence_.where = NoExpr
    /\ sentence_.yields = <<Column(InputProp("id"))>> /\ ~sentence_.distinct
    /\ Called("finishExecution") /\ Called("doFinish")
    /\ EveryResponseComplete

\* the shard responses of the first hop, as storage answers the first request
FirstHopRpcResp ==
    LET i == CHOOSE k \in 1..Len(events) :
                 /\ events[k].ev = "getNeighbors"
                 /\ \A j \in 1..(k - 1) : events[j].ev # "getNeighbors"
    IN GetNeighborsResp(graph, events[i].arg, {})

\* the orders n shard responses can come in
Orders(n) == {p \in [1..n -> 1..n] : \A i, j \in 1..n : i # j => p[i] # p[j]}

\* the back-tracker after the first hop, its responses handled in order p
TrackerIn(rpcResp, p) ==
    TrackAll([present |-> TRUE, mapping |-> EmptyMap],
             Records([i \in 1..Len(rpcResp) |-> rpcResp[p[i]]]))

\* the values the yields have on the records, read with back-tracker bt
ValuesWith(bt, recs) ==
    [k \in 1..Len(recs) |->
        EvalAll([go EXCEPT !.backTracker_ = bt], recs[k], go.yields_).vals]

\* how often each element occurs in a sequence
Occurrences(s) == [v \in Range(s) |-> Cardinality({i \in 1..Len(s) : s[i] = v})]

\* C38: the multiset of the rows of a two-step traversal from a piped
\* input that yields $-.id is the one every order of the first hop's shard
\* responses gives.
C38_RowsWhateverTheOrder ==
    PipedTwoSteps =>
        LET first == FirstHopRpcResp
            recs == Records(ProjectedRpcResp)
            rows == Occurrences([i \in 1..Len(EmittedRows) |-> RowValues(EmittedRows[i])])
        IN \A p \in Orders(Len(first)) :
              Occurrences(ValuesWith(TrackerIn(first, p), recs)) = rows

\* the rows emitted are those of the order the responses were handled in
RowsOfHandledOrder ==
    PipedTwoSteps =>
        LET first == FirstHopRpcResp
        IN /\ TrackerIn(first, [i \in 1..Len(first) |-> i]) = go.backTracker_
           /\ ValuesWith(go.backTracker_, Records(ProjectedRpcResp))
                 = [i \in 1..Len(EmittedRows) |-> RowValues(EmittedRows[i])]


\* the response at i is a dead end: of a non-final hop, or of the final hop
\* of a traversal that has properties to fetch, and it holds no edge
DeadEndAt(i) ==
    /\ NonFinalResponseAt(i) \/ (FinalResponseAt(i) /\ ~NeedsNoFetch)
    /\ events[i].arg.holds.dsts = {}

\* the execution ended right after the response at i, in doFinish, with an
\* empty result and without another storage request
FinishedEmptyAfter(i) ==
    /\ pc = "idle" /\ outstanding = {}
    /\ events[i + 1].ev = "onEmptyInputs"
    /\ events[Len(events)].ev = "doFinish"
    /\ CallCount("doFinish") = 1 /\ ~Called("doError")
    /\ \A j \in StorageRequests : j < i
    /\ ~Called("finishExecution")
    /\ EmittedRows = <<>>
    /\ IF onResult_
       THEN CallCount("onResult") = 1 /\ outputs[Len(outputs)].rows = <<>>
       ELSE go.resp_.present

\* C39: when a response of a non-final hop holds no edge, or the response of
\* the final hop holds none where edge or vertex properties would be
\* fetched, the execution ends in doFinish with an empty result: no further
\* get_neighbors, get_edge_props or get_vertex_props request is sent and
\* doError is not called.
C39_DeadEndFinishesEmpty ==
    \A i \in 1..Len(events) : DeadEndAt(i) => FinishedEmptyAfter(i)

\* the first of two hops found no edge and the execution has ended
C39_Witness ==
    \E i \in 1..Len(events) :
        /\ NonFinalResponseAt(i) /\ DeadEndAt(i)
        /\ go.steps_ = 2 /\ events[i].arg.step = 1
        /\ Called("doFinish")

\* the final hop of a traversal with properties to fetch found no edge
FinalDeadEnd ==
    \E i \in 1..Len(events) :
        /\ FinalResponseAt(i) /\ DeadEndAt(i)
        /\ go.steps_ >= 1 /\ Called("doFinish")


\* the yield columns of the sentence, with the columns synthesized for
\* OVER * without YIELD
AllYieldColumns ==
    IF go.expCtx_.overAll /\ go.yields_ = <<>> THEN SynthYields(GetEdgeNames(go))
    ELSE go.yields_

AllColumnNames == GetResultColumnNames([go EXCEPT !.yields_ = AllYieldColumns])

\* C40: in terminal mode the column names of a successful response are the
\* names of all yield columns, the synthesized ones included, whether the
\* execution ended by the emission of an empty result or by the projection.
C40_ColumnNamesEitherWay ==
    (~onResult_ /\ pc = "idle" /\ Called("doFinish")) =>
        go.resp_.present /\ go.resp_.column_names = AllColumnNames

\* a response made by the projection has the names of all yield columns
ProjectionNamesColumns ==
    (~onResult_ /\ pc = "idle" /\ Called("doFinish") /\ Called("finishExecution")) =>
        go.resp_.present /\ go.resp_.column_names = AllColumnNames

\* GO 2 STEPS FROM 2 OVER like YIELD like._dst where 2 has no edge: the
\* response made by onEmptyInputs has no column name
EmptyEmissionUnnamed ==
    /\ ~onResult_ /\ pc = "idle" /\ Called("doFinish") /\ Called("onEmptyInputs")
    /\ sentence_.steps = 2 /\ sentence_.from.vids = <<2>>
    /\ sentence_.yields = <<Column(EdgeDstId("like"))>>
    /\ EveryResponseComplete /\ Called("neighborsResp")
    /\ go.resp_.present /\ go.resp_.column_names = <<>>
    /\ AllColumnNames = <<"like._dst">>

====
